---- MODULE Spec2Model ----
(***************************************************************************)
(* Model of the podcast-digest episode pipeline: the per-episode job       *)
(* (processEpisode), the per-feed loop (refreshAndProcessPodcast), the     *)
(* fan-out run (runFullPipeline), the scheduler's busy flag and the HTTP   *)
(* handlers that start runs.  The process is a single event loop: a step   *)
(* of the model is one synchronous block (from one suspension point to the *)
(* next); a processEpisode call made in the middle of a synchronous block  *)
(* is its own step, during which "loop" names the calling worker and no    *)
(* other callback can run.                                                 *)
(***************************************************************************)
EXTENDS Integers, Sequences, FiniteSets, TLC

VARIABLES
  episodes,       \* ids of the rows of table episodes
  status,         \* episodes.status
  processed_at,   \* episodes.processed_at (0 = NULL, n = n-th timestamp written to the row)
  analysis,       \* analysis_results row of the episode (0 = no row, n = n-th row stored)
  task_logs,      \* table task_logs, in id order
  isRunning,      \* scheduler busy flag
  provider,       \* config.transcriptionProvider
  run,            \* one record per trigger received
  worker,         \* the sequential episode loops (one per run and feed)
  loop,           \* worker whose processEpisode call is executing synchronously
  tempFiles,      \* files of the temp directory, named by the job that created them
  nTriggers,      \* triggers received so far
  saves,          \* per episode: saveAnalysisResult statements executed
  stamps,         \* per episode: datetime('now') values written to processed_at
  reprocessed,    \* episodes an operator asked to reprocess
  retry,          \* a withRetry call evaluated on its own
  chunker,        \* a splitIntoChunks call evaluated on its own
  analyzer,       \* an analyzeContent call evaluated on its own
  normalizer,     \* a normalizeAnalysisResult call evaluated on its own
  poller,         \* a transcribeWithParaformer call evaluated on its own
  uploader        \* a segment-upload transcribeAudio call evaluated on its own

pipelineVars == <<episodes, status, processed_at, analysis, task_logs, isRunning,
                  provider, run, worker, loop, tempFiles, nTriggers, saves, stamps,
                  reprocessed>>

\* The calls that the utility specifications evaluate on their own; the
\* pipeline specification leaves them idle.
callVars == <<retry, chunker, analyzer, normalizer, poller, uploader>>

vars == <<pipelineVars, callVars>>

(***************************************************************************)
(* Bounds and the fixture                                                  *)
(***************************************************************************)
MaxTriggers == 2
MaxConcurrentFeeds == 1

Podcasts == {1, 2}
Episodes == {1, 2, 3}
RunIds == 1..MaxTriggers
Workers == RunIds \X Podcasts
NoOne == <<0, 0>>

\* The feeds as the RSS parser reports them.
podcast_id(e) == IF e = 3 THEN 2 ELSE 1
audio_url(e) == e # 3
published_at(e) == e
WindowStart == 2
FeedItems(p) == {e \in Episodes : podcast_id(e) = p}

TextLens == {0, 49, 50}
MinTranscriptLength == 50
EpisodeLimit == 5

(***************************************************************************)
(* Sequences helpers                                                       *)
(***************************************************************************)
RECURSIVE SortDesc(_)
SortDesc(S) ==
  IF S = {} THEN <<>>
  ELSE LET m == CHOOSE x \in S : \A y \in S : published_at(y) <= published_at(x)
       IN <<m>> \o SortDesc(S \ {m})

Take(s, n) == IF Len(s) <= n THEN s ELSE SubSeq(s, 1, n)

Count(s, st) == Cardinality({i \in 1..Len(s) : s[i].status = st})

IsIn(x, s) == \E i \in 1..Len(s) : s[i] = x

(***************************************************************************)
(* Records                                                                 *)
(***************************************************************************)
NoResult == [status |-> "none", episodeId |-> 0, error |-> ""]

\* No transcription received (yet) by the current job.
NoText == 0 - 1

Result(st, e, msg) == [status |-> st, episodeId |-> e, error |-> msg]

IdleWorker ==
  [pc |-> "idle", kind |-> "none", useTimeWindow |-> FALSE,
   selected |-> <<>>, queue |-> <<>>, results |-> <<>>,
   audioPath |-> FALSE, text |-> NoText, result |-> NoResult,
   ran |-> {}, wrote |-> <<>>, error |-> ""]

NoRun == [kind |-> "none", pc |-> "none", taskLogId |-> 0]

NewTaskLog(type) ==
  [task_type |-> type, status |-> "running", total_episodes |-> 0,
   processed_episodes |-> 0, failed_episodes |-> 0, error_details |-> <<>>,
   completed_at |-> FALSE]

\* The episode a worker's current processEpisode call is about.
Ep(w) == Head(worker[w].queue)

Job(w) == <<w, Ep(w)>>

(***************************************************************************)
(* Storage collaborator                                                    *)
(***************************************************************************)
getAnalysisResult(e) == analysis[e]

getNewEpisodes(eps, p) ==
  SortDesc({e \in eps : /\ podcast_id(e) = p
                        /\ published_at(e) >= WindowStart
                        /\ status[e] = "pending"})

getPendingEpisodesByPodcast(eps, p, limit) ==
  Take(SortDesc({e \in eps : /\ podcast_id(e) = p
                             /\ status[e] = "pending"
                             /\ audio_url(e)}), limit)

getFailedEpisodes == SortDesc({e \in episodes : status[e] = "failed"})

\* INSERT OR IGNORE of every item of the parsed feed.
addEpisodes(p) == episodes \cup FeedItems(p)

\* updateEpisodeStatus: the status, and processed_at = now or NULL.
StatusAfter(st, id, s) == [st EXCEPT ![id] = s]

StampsAfter(sp, id, s) == IF s = "completed" THEN [sp EXCEPT ![id] = @ + 1] ELSE sp

ProcessedAtAfter(pa, sp, id, s) ==
  [pa EXCEPT ![id] = IF s = "completed" THEN sp[id] + 1 ELSE 0]

\* Applies the status writes ws, in order, to row id.
RECURSIVE WriteAll(_, _, _)
WriteAll(db, id, ws) ==
  IF ws = <<>> THEN db
  ELSE WriteAll([st |-> StatusAfter(db.st, id, Head(ws)),
                 pa |-> ProcessedAtAfter(db.pa, db.sp, id, Head(ws)),
                 sp |-> StampsAfter(db.sp, id, Head(ws))], id, Tail(ws))

Db == [st |-> status, pa |-> processed_at, sp |-> stamps]

SetDb(db) ==
  /\ status' = db.st
  /\ processed_at' = db.pa
  /\ stamps' = db.sp

\* updateTaskLog: only the given fields; completed_at with a terminal status.
updateTaskLog(logs, id, data) ==
  [logs EXCEPT ![id] =
     [f \in DOMAIN @ |->
        IF f \in DOMAIN data THEN data[f]
        ELSE IF f = "completed_at" /\ "status" \in DOMAIN data
                /\ data.status \in {"completed", "failed"} THEN TRUE
        ELSE @[f]]]

(***************************************************************************)
(* processEpisode                                                          *)
(***************************************************************************)
\* The idempotency check left out.
AlreadyProcessedNever(e) == FALSE

AlreadyProcessed(e) == getAnalysisResult(e) # 0

\* The media locator check left out.
HasAudioUrlAlways(e) == TRUE

HasAudioUrl(e) == audio_url(e)

\* Only the empty text rejected.
TooShortEmptyOnly(len) == len = 0

TooShort(len) == len = 0 \/ len < MinTranscriptLength

\* The finally block: unlink the downloaded file when audioPath is set.
Cleanup(files, audioPath, job) ==
  IF audioPath /\ job \in files THEN files \ {job} ELSE files

\* The episode marked completed before the save.
TryWritesBeforeSave(out) == IF out \in {"ok", "save_throws"} THEN <<"completed">> ELSE <<>>

\* Status writes of the try block's last part, by what happens in it: the
\* episode is marked completed once the artifact is rendered and saved.
TryWrites(out) == IF out = "ok" THEN <<"completed">> ELSE <<>>

\* A catch block that does not mark the episode.
CatchWritesNothing(threw) == <<>>

\* Status writes of the catch block.
CatchWrites(threw) == IF threw THEN <<"failed">> ELSE <<>>

\* Steps of the try block's last part that are reached.
TailRan(out) ==
  CASE out = "analysis_throws" -> {}
    [] out = "render_throws" -> {"render"}
    [] OTHER -> {"render", "save"}

\* The job of worker w returns r without having started work.
ReturnEarly(w, r) ==
  /\ worker' = [worker EXCEPT ![w].pc = "returned", ![w].result = r,
                              ![w].ran = {}, ![w].wrote = <<>>]
  /\ UNCHANGED <<status, processed_at, stamps, tempFiles>>

\* The job of worker w returns r after the status writes ws; the finally
\* block runs on the temp directory as it is then (files).
Return(w, r, ws, ran, len, files) ==
  /\ SetDb(WriteAll(Db, Ep(w), ws))
  /\ worker' = [worker EXCEPT ![w].pc = "returned",
                              ![w].result = r,
                              ![w].wrote = @ \o ws,
                              ![w].ran = @ \cup ran,
                              ![w].audioPath = FALSE,
                              ![w].text = len]
  /\ tempFiles' = Cleanup(files, worker[w].audioPath, Job(w))

\* A step of the try block throws msg: the catch and finally blocks.
Catch(w, msg, ran, len, files) ==
  Return(w, Result("failed", Ep(w), msg), CatchWrites(TRUE), ran, len, files)

\* From the call to the first await.
ProcessEpisodeEntry(w) ==
  /\ loop = w
  /\ worker[w].pc = "entry"
  /\ loop' = NoOne
  /\ IF AlreadyProcessed(Ep(w))
       THEN ReturnEarly(w, Result("skipped", Ep(w), ""))
     ELSE IF ~HasAudioUrl(Ep(w))
       THEN ReturnEarly(w, Result("failed", Ep(w), "No audio URL"))
     ELSE /\ SetDb(WriteAll(Db, Ep(w), <<"processing">>))
          /\ worker' = [worker EXCEPT
               ![w].pc = IF provider = "dashscope" THEN "transcribing" ELSE "downloading",
               ![w].ran = IF provider = "dashscope" THEN {"transcribe"} ELSE {"download"},
               ![w].wrote = <<"processing">>,
               ![w].result = NoResult]
          /\ UNCHANGED tempFiles
  /\ UNCHANGED <<episodes, analysis, task_logs, isRunning, provider, run,
                 nTriggers, saves, reprocessed>>

\* downloadAudio settles: the file is complete, or every attempt failed
\* (with or without a partly written file left at the output path).
DownloadDone(w) ==
  /\ loop = NoOne
  /\ worker[w].pc = "downloading"
  /\ \E out \in {"ok", "fail", "fail_partial"} :
       IF out = "ok"
         THEN /\ tempFiles' = tempFiles \cup {Job(w)}
              /\ worker' = [worker EXCEPT ![w].pc = "transcribing",
                                          ![w].audioPath = TRUE,
                                          ![w].ran = @ \cup {"transcribe"}]
              /\ UNCHANGED <<status, processed_at, stamps>>
         ELSE Catch(w, "download failed", {}, NoText,
                    IF out = "fail_partial" THEN tempFiles \cup {Job(w)} ELSE tempFiles)
  /\ UNCHANGED <<episodes, analysis, task_logs, isRunning, provider, run, loop,
                 nTriggers, saves, reprocessed>>

\* transcribeAudio settles with a text of some length, or throws.
TranscribeDone(w) ==
  /\ loop = NoOne
  /\ worker[w].pc = "transcribing"
  /\ \/ Catch(w, "transcription failed", {}, NoText, tempFiles)
     \/ \E len \in TextLens :
          IF TooShort(len)
            THEN Catch(w, "Transcription result too short or empty", {}, len, tempFiles)
            ELSE /\ worker' = [worker EXCEPT ![w].pc = "analyzing",
                                             ![w].text = len,
                                             ![w].ran = @ \cup {"analyze"}]
                 /\ UNCHANGED <<status, processed_at, stamps, tempFiles>>
  /\ UNCHANGED <<episodes, analysis, task_logs, isRunning, provider, run, loop,
                 nTriggers, saves, reprocessed>>

\* analyzeContent settles; on success the artifact is rendered and saved and
\* the episode marked completed, all in the same synchronous block.
AnalyzeDone(w) ==
  /\ loop = NoOne
  /\ worker[w].pc = "analyzing"
  /\ \E out \in {"ok", "analysis_throws", "render_throws", "save_throws"} :
       /\ saves' = IF out = "ok" THEN [saves EXCEPT ![Ep(w)] = @ + 1] ELSE saves
       /\ analysis' = IF out = "ok" THEN [analysis EXCEPT ![Ep(w)] = saves[Ep(w)] + 1]
                      ELSE analysis
       /\ Return(w,
                 IF out = "ok" THEN Result("success", Ep(w), "")
                 ELSE Result("failed", Ep(w), out),
                 TryWrites(out) \o CatchWrites(out # "ok"),
                 TailRan(out), worker[w].text, tempFiles)
  /\ UNCHANGED <<episodes, task_logs, isRunning, provider, run, loop,
                 nTriggers, reprocessed>>

(***************************************************************************)
(* refreshAndProcessPodcast and the other episode loops                    *)
(***************************************************************************)
WorkersOf(r) == {w \in Workers : w[1] = r}

Settled(w) == worker[w].pc \in {"idle", "finished", "threw"}

Active(w) == worker[w].pc \notin {"idle", "queued", "finished", "threw"}

\* Episodes to process, queried right after the feed's items were inserted.
SelectEpisodes(eps, p, useTimeWindow) ==
  IF useTimeWindow THEN getNewEpisodes(eps, p)
  ELSE getPendingEpisodesByPodcast(eps, p, EpisodeLimit)

\* A worker that is about to loop over list: it calls processEpisode on the
\* first element at once, or returns an empty result list.
LoopOver(w, kind, useTimeWindow, list) ==
  [IdleWorker EXCEPT !.pc = IF list = <<>> THEN "finished" ELSE "entry",
                     !.kind = kind, !.useTimeWindow = useTimeWindow,
                     !.selected = list, !.queue = list]

\* parseFeed settles: it throws, or the items are inserted, the episodes
\* selected and the first processEpisode call made.
ParseFeedDone(w) ==
  /\ loop = NoOne
  /\ worker[w].pc = "parsing"
  /\ \/ /\ worker' = [worker EXCEPT ![w].pc = "threw", ![w].error = "feed failed"]
        /\ UNCHANGED <<episodes, loop>>
     \/ LET eps == addEpisodes(w[2])
            list == SelectEpisodes(eps, w[2], worker[w].useTimeWindow)
        IN /\ episodes' = eps
           /\ worker' = [worker EXCEPT ![w] = LoopOver(w, "feed", worker[w].useTimeWindow, list)]
           /\ loop' = IF list = <<>> THEN NoOne ELSE w
  /\ UNCHANGED <<status, processed_at, analysis, task_logs, isRunning, provider, run,
                 tempFiles, nTriggers, saves, stamps, reprocessed>>

\* The caller resumes after "await processEpisode": it records the result and
\* calls processEpisode on the next episode, or returns.
Collect(w) ==
  /\ loop = NoOne
  /\ worker[w].pc = "returned"
  /\ LET rest == Tail(worker[w].queue)
     IN /\ worker' = [worker EXCEPT
             ![w].pc = IF rest = <<>> THEN "finished" ELSE "entry",
             ![w].results = Append(@, worker[w].result),
             ![w].queue = rest,
             ![w].result = NoResult, ![w].ran = {}, ![w].wrote = <<>>,
             ![w].text = NoText]
        /\ loop' = IF rest = <<>> THEN NoOne ELSE w
  /\ UNCHANGED <<episodes, status, processed_at, analysis, task_logs, isRunning,
                 provider, run, tempFiles, nTriggers, saves, stamps, reprocessed>>

\* The number of feed tasks of run r that p-limit has started and that have
\* not settled.
ActiveCount(r) == Cardinality({v \in WorkersOf(r) : Active(v)})

\* A limiter that starts every task at once.
SlotFreeAlways(r) == TRUE

\* p-limit: activeCount < concurrency.
SlotFree(r) == ActiveCount(r) < MaxConcurrentFeeds

\* p-limit starts the next queued feed of a full run when a slot is free.
LimitStart(w) ==
  /\ loop = NoOne
  /\ worker[w].pc = "queued"
  /\ SlotFree(w[1])
  /\ \A v \in WorkersOf(w[1]) : worker[v].pc = "queued" => w[2] <= v[2]
  /\ worker' = [worker EXCEPT ![w].pc = "parsing"]
  /\ UNCHANGED <<episodes, status, processed_at, analysis, task_logs, isRunning,
                 provider, run, loop, tempFiles, nTriggers, saves, stamps, reprocessed>>

(***************************************************************************)
(* Triggers                                                                *)
(***************************************************************************)
NextRun == nTriggers + 1

QueuedFeeds(r) ==
  [w \in Workers |->
     IF w[1] = r THEN [IdleWorker EXCEPT !.pc = "queued", !.kind = "feed",
                                         !.useTimeWindow = TRUE]
     ELSE worker[w]]

\* executeScheduledTask, from the cron tick or POST /scheduler/trigger.
ExecuteScheduledTask ==
  /\ loop = NoOne
  /\ nTriggers < MaxTriggers
  /\ nTriggers' = NextRun
  /\ IF isRunning
       THEN /\ run' = [run EXCEPT ![NextRun] = [kind |-> "scheduled", pc |-> "skipped",
                                                taskLogId |-> 0]]
            /\ UNCHANGED <<task_logs, isRunning, worker>>
       ELSE /\ isRunning' = TRUE
            /\ task_logs' = Append(task_logs, NewTaskLog("full_pipeline"))
            /\ run' = [run EXCEPT ![NextRun] = [kind |-> "scheduled", pc |-> "running",
                                                taskLogId |-> Len(task_logs) + 1]]
            /\ worker' = QueuedFeeds(NextRun)
  /\ UNCHANGED <<episodes, status, processed_at, analysis, provider, loop, tempFiles,
                 saves, stamps, reprocessed>>

\* POST /pipeline/run
PostPipelineRun ==
  /\ loop = NoOne
  /\ nTriggers < MaxTriggers
  /\ nTriggers' = NextRun
  /\ task_logs' = task_logs \o <<NewTaskLog("full_pipeline_manual"),
                                 NewTaskLog("full_pipeline")>>
  /\ run' = [run EXCEPT ![NextRun] = [kind |-> "manual", pc |-> "running",
                                      taskLogId |-> Len(task_logs) + 2]]
  /\ worker' = QueuedFeeds(NextRun)
  /\ UNCHANGED <<episodes, status, processed_at, analysis, isRunning, provider, loop,
                 tempFiles, saves, stamps, reprocessed>>

\* POST /podcasts/:id/process
PostPodcastProcess(p) ==
  /\ loop = NoOne
  /\ nTriggers < MaxTriggers
  /\ nTriggers' = NextRun
  /\ task_logs' = Append(task_logs, NewTaskLog("process_podcast"))
  /\ run' = [run EXCEPT ![NextRun] = [kind |-> "feed", pc |-> "running",
                                      taskLogId |-> Len(task_logs) + 1]]
  /\ worker' = [worker EXCEPT ![<<NextRun, p>>] =
                  [IdleWorker EXCEPT !.pc = "parsing", !.kind = "feed"]]
  /\ UNCHANGED <<episodes, status, processed_at, analysis, isRunning, provider, loop,
                 tempFiles, saves, stamps, reprocessed>>

\* A reprocess request that leaves the stored analysis in place.
deleteNothing(an, e) == an

\* deleteAnalysisResult
deleteAnalysisResult(an, e) == [an EXCEPT ![e] = 0]

\* POST /episodes/:id/reprocess
PostReprocess(e) ==
  /\ loop = NoOne
  /\ nTriggers < MaxTriggers
  /\ nTriggers' = NextRun
  /\ IF e \notin episodes
       THEN /\ run' = [run EXCEPT ![NextRun] = [kind |-> "reprocess", pc |-> "skipped",
                                                taskLogId |-> 0]]
            /\ UNCHANGED <<status, processed_at, stamps, analysis, task_logs, worker,
                           loop, reprocessed>>
       ELSE /\ analysis' = deleteAnalysisResult(analysis, e)
            /\ SetDb(WriteAll(Db, e, <<"pending">>))
            /\ task_logs' = Append(task_logs, NewTaskLog("reprocess"))
            /\ run' = [run EXCEPT ![NextRun] = [kind |-> "reprocess", pc |-> "running",
                                                taskLogId |-> Len(task_logs) + 1]]
            /\ worker' = [worker EXCEPT ![<<NextRun, podcast_id(e)>>] =
                            LoopOver(<<NextRun, podcast_id(e)>>, "reprocess", FALSE, <<e>>)]
            /\ loop' = <<NextRun, podcast_id(e)>>
            /\ reprocessed' = reprocessed \cup {e}
  /\ UNCHANGED <<episodes, isRunning, provider, tempFiles, saves>>

\* A sweep that resets the status and leaves the artifacts in place.
resetFailedAnalysisKept(st, an) == an

\* resetFailedEpisodes: every failed episode back to pending, its analysis
\* artifact deleted.
resetFailedStatus(st) == [e \in Episodes |-> IF st[e] = "failed" THEN "pending" ELSE st[e]]

resetFailedAnalysis(st, an) == [e \in Episodes |-> IF st[e] = "failed" THEN 0 ELSE an[e]]

\* POST /pipeline/retry-failed
PostRetryFailed ==
  /\ loop = NoOne
  /\ nTriggers < MaxTriggers
  /\ nTriggers' = NextRun
  /\ LET failedEpisodes == getFailedEpisodes
     IN IF failedEpisodes = <<>>
          THEN /\ run' = [run EXCEPT ![NextRun] = [kind |-> "retry", pc |-> "skipped",
                                                   taskLogId |-> 0]]
               /\ UNCHANGED <<status, analysis, task_logs, worker, loop>>
          ELSE /\ status' = resetFailedStatus(status)
               /\ analysis' = resetFailedAnalysis(status, analysis)
               /\ task_logs' = Append(task_logs, NewTaskLog("retry_failed_episodes"))
               /\ run' = [run EXCEPT ![NextRun] = [kind |-> "retry", pc |-> "running",
                                                   taskLogId |-> Len(task_logs) + 1]]
               /\ worker' = [worker EXCEPT ![<<NextRun, 1>>] =
                               LoopOver(<<NextRun, 1>>, "retry", FALSE, failedEpisodes)]
               /\ loop' = <<NextRun, 1>>
  /\ UNCHANGED <<episodes, processed_at, isRunning, provider, tempFiles, saves, stamps,
                 reprocessed>>

(***************************************************************************)
(* The end of a run                                                        *)
(***************************************************************************)
RECURSIVE Concat(_, _)
\* The result lists of the feeds of run r in podcast order; a feed that threw
\* contributes none.
Concat(r, ps) ==
  IF ps = {} THEN <<>>
  ELSE LET p == CHOOSE x \in ps : \A y \in ps : x <= y
       IN (IF worker[<<r, p>>].pc = "finished" THEN worker[<<r, p>>].results ELSE <<>>)
          \o Concat(r, ps \ {p})

AllResults(r) == Concat(r, Podcasts)

RECURSIVE FailedDetails(_)
FailedDetails(rs) ==
  IF rs = <<>> THEN <<>>
  ELSE (IF Head(rs).status = "failed" /\ Head(rs).error # ""
          THEN <<<<Head(rs).episodeId, Head(rs).error>>>> ELSE <<>>)
       \o FailedDetails(Tail(rs))

\* A status that calls every run with a failed episode 'failed'.
RunStatusAnyFailed(succeeded, failed) ==
  IF failed > 0 THEN "failed" ELSE "completed"

RunStatus(succeeded, failed) ==
  IF failed > 0 /\ succeeded = 0 THEN "failed" ELSE "completed"

\* The fields a finished loop writes to its audit record.
Summary(rs) ==
  [status |-> RunStatus(Count(rs, "success"), Count(rs, "failed")),
   total_episodes |-> Len(rs),
   processed_episodes |-> Count(rs, "success"),
   failed_episodes |-> Count(rs, "failed")]

WithDetails(data, details) ==
  IF details = <<>> THEN data
  ELSE [f \in DOMAIN data \cup {"error_details"} |->
          IF f = "error_details" THEN details ELSE data[f]]

\* A run whose feed tasks are not guarded one by one: the first feed that
\* throws rejects the whole run, whose outer catch marks the record failed.
FinalLogUnguarded(r) ==
  IF \E w \in WorkersOf(r) : worker[w].pc = "threw"
    THEN [status |-> "failed", error_details |-> <<<<0, "feed failed">>>>]
    ELSE WithDetails(Summary(AllResults(r)), FailedDetails(AllResults(r)))

\* What each kind of run writes to its audit record when its work has ended.
FinalLog(r) ==
  LET rs == AllResults(r)
      thrown == {w \in WorkersOf(r) : worker[w].pc = "threw"}
  IN CASE run[r].kind \in {"scheduled", "manual", "retry"} ->
            WithDetails(Summary(rs), FailedDetails(rs))
       [] run[r].kind = "feed" ->
            IF thrown # {}
              THEN [status |-> "failed", error_details |-> <<<<0, "feed failed">>>>]
              ELSE Summary(rs)
       [] run[r].kind = "reprocess" ->
            WithDetails([status |-> IF rs[1].status = "success" THEN "completed" ELSE "failed",
                         total_episodes |-> 1,
                         processed_episodes |-> IF rs[1].status = "success" THEN 1 ELSE 0,
                         failed_episodes |-> IF rs[1].status = "failed" THEN 1 ELSE 0],
                        IF rs[1].error = "" THEN <<>>
                        ELSE <<<<rs[1].episodeId, rs[1].error>>>>)

\* A busy flag that is cleared at the end of the try block only.
FlagAfterNoFinally(kind, outcome, flag) ==
  IF kind = "scheduled" /\ outcome = "done" THEN FALSE ELSE flag

\* executeScheduledTask's finally block: the busy flag after a run of the given
\* kind has ended, by return ("done") or by exception ("threw").
FlagAfter(kind, outcome, flag) ==
  IF kind = "scheduled" THEN FALSE ELSE flag

\* Every loop of the run has ended: the audit record is finalised and, for a
\* scheduled run, the busy flag cleared.
RunFinish(r) ==
  /\ loop = NoOne
  /\ run[r].pc = "running"
  /\ \A w \in WorkersOf(r) : Settled(w)
  /\ task_logs' = updateTaskLog(task_logs, run[r].taskLogId, FinalLog(r))
  /\ run' = [run EXCEPT ![r].pc = "done"]
  /\ worker' = [w \in Workers |-> IF w[1] = r THEN IdleWorker ELSE worker[w]]
  /\ isRunning' = FlagAfter(run[r].kind, "done", isRunning)
  /\ UNCHANGED <<episodes, status, processed_at, analysis, provider, loop, tempFiles,
                 nTriggers, saves, stamps, reprocessed>>

\* Every loop of the run has ended and the final updateTaskLog throws, in the
\* try block and again in the catch block: runFullPipeline rejects, the
\* scheduler's catch records the failure and its finally clears the flag.
RunFinishThrows(r) ==
  /\ loop = NoOne
  /\ run[r].pc = "running"
  /\ \A w \in WorkersOf(r) : Settled(w)
  /\ run' = [run EXCEPT ![r].pc = "threw"]
  /\ worker' = [w \in Workers |-> IF w[1] = r THEN IdleWorker ELSE worker[w]]
  /\ isRunning' = FlagAfter(run[r].kind, "threw", isRunning)
  /\ UNCHANGED <<episodes, status, processed_at, analysis, task_logs, provider, loop,
                 tempFiles, nTriggers, saves, stamps, reprocessed>>

\* executeScheduledTask when createTaskLog or getActivePodcasts throws:
\* runFullPipeline rejects before any feed is queued, and the flag set before
\* the call is cleared by the finally block in the same turn of the event loop.
ExecuteScheduledTaskThrows ==
  /\ loop = NoOne
  /\ nTriggers < MaxTriggers
  /\ ~isRunning
  /\ nTriggers' = NextRun
  /\ run' = [run EXCEPT ![NextRun] = [kind |-> "scheduled", pc |-> "threw",
                                      taskLogId |-> 0]]
  /\ isRunning' = FlagAfter("scheduled", "threw", TRUE)
  /\ UNCHANGED <<episodes, status, processed_at, analysis, task_logs, provider, loop,
                 tempFiles, saves, stamps, reprocessed, worker>>

(***************************************************************************)
(* Specification                                                           *)
(***************************************************************************)
\* No call is being evaluated on its own.
NoCall == [pc |-> "idle"]

CallsIdle ==
  /\ retry = NoCall
  /\ chunker = NoCall
  /\ analyzer = NoCall
  /\ normalizer = NoCall
  /\ poller = NoCall
  /\ uploader = NoCall

\* The process just started on an empty database.
Started ==
  /\ episodes = {}
  /\ status = [e \in Episodes |-> "pending"]
  /\ processed_at = [e \in Episodes |-> 0]
  /\ analysis = [e \in Episodes |-> 0]
  /\ task_logs = <<>>
  /\ isRunning = FALSE
  /\ run = [r \in RunIds |-> NoRun]
  /\ worker = [w \in Workers |-> IdleWorker]
  /\ loop = NoOne
  /\ tempFiles = {}
  /\ nTriggers = 0
  /\ saves = [e \in Episodes |-> 0]
  /\ stamps = [e \in Episodes |-> 0]
  /\ reprocessed = {}

Init ==
  /\ CallsIdle
  /\ Started
  /\ provider \in {"openai", "dashscope"}

Next ==
  \/ ExecuteScheduledTask /\ UNCHANGED callVars
  \/ PostPipelineRun /\ UNCHANGED callVars
  \/ \E p \in Podcasts : PostPodcastProcess(p) /\ UNCHANGED callVars
  \/ \E e \in Episodes : PostReprocess(e) /\ UNCHANGED callVars
  \/ PostRetryFailed /\ UNCHANGED callVars
  \/ \E w \in Workers : LimitStart(w) /\ UNCHANGED callVars
  \/ \E w \in Workers : ParseFeedDone(w) /\ UNCHANGED callVars
  \/ \E w \in Workers : ProcessEpisodeEntry(w) /\ UNCHANGED callVars
  \/ \E w \in Workers : DownloadDone(w) /\ UNCHANGED callVars
  \/ \E w \in Workers : TranscribeDone(w) /\ UNCHANGED callVars
  \/ \E w \in Workers : AnalyzeDone(w) /\ UNCHANGED callVars
  \/ \E w \in Workers : Collect(w) /\ UNCHANGED callVars
  \/ \E r \in RunIds : RunFinish(r) /\ UNCHANGED callVars

Spec == Init /\ [][Next]_vars

\* Every awaited operation settles and every continuation that is ready is
\* run by the event loop.
Fairness ==
  /\ \A w \in Workers :
       WF_vars(/\ \/ LimitStart(w) \/ ParseFeedDone(w) \/ ProcessEpisodeEntry(w)
                  \/ DownloadDone(w) \/ TranscribeDone(w) \/ AnalyzeDone(w) \/ Collect(w)
               /\ UNCHANGED callVars)
  /\ \A r \in RunIds : WF_vars(RunFinish(r) /\ UNCHANGED callVars)

\* One runFullPipeline on its own: a single trigger of a full run, whose
\* awaited operations all settle.
FullRunNext ==
  \/ nTriggers = 0 /\ ExecuteScheduledTask /\ UNCHANGED callVars
  \/ nTriggers = 0 /\ PostPipelineRun /\ UNCHANGED callVars
  \/ \E w \in Workers : LimitStart(w) /\ UNCHANGED callVars
  \/ \E w \in Workers : ParseFeedDone(w) /\ UNCHANGED callVars
  \/ \E w \in Workers : ProcessEpisodeEntry(w) /\ UNCHANGED callVars
  \/ \E w \in Workers : DownloadDone(w) /\ UNCHANGED callVars
  \/ \E w \in Workers : TranscribeDone(w) /\ UNCHANGED callVars
  \/ \E w \in Workers : AnalyzeDone(w) /\ UNCHANGED callVars
  \/ \E w \in Workers : Collect(w) /\ UNCHANGED callVars
  \/ \E r \in RunIds : RunFinish(r) /\ UNCHANGED callVars

FullRunSpec == Init /\ [][FullRunNext]_vars /\ Fairness

\* The audit record of a finished run of the given type.
ClosedLog(type, st, total, ok, ko) ==
  [NewTaskLog(type) EXCEPT !.status = st, !.completed_at = TRUE,
                          !.total_episodes = total, !.processed_episodes = ok,
                          !.failed_episodes = ko]

\* One closed 'reprocess' record per element of the set es.
RECURSIVE ReprocessLogs(_)
ReprocessLogs(es) ==
  IF es = {} THEN <<>>
  ELSE LET e == CHOOSE x \in es : TRUE
       IN <<ClosedLog("reprocess", "failed", 1, 0, 1)>> \o ReprocessLogs(es \ {e})

\* The service after POST /podcasts/1/process has run to its end and left
\* every episode of the feed 'failed'. For the episodes in stored, a reprocess
\* request arrived while the run's job was in flight: the run's job saved its
\* artifact and the reprocess job failed after it, so the row is there and the
\* status is 'failed'; the jobs on the other episodes failed before the analysis.
AfterFailedRun(stored) ==
  /\ episodes = FeedItems(1)
  /\ status = [e \in Episodes |-> IF e \in FeedItems(1) THEN "failed" ELSE "pending"]
  /\ processed_at = [e \in Episodes |-> 0]
  /\ analysis = [e \in Episodes |-> IF e \in stored THEN 1 ELSE 0]
  /\ saves = [e \in Episodes |-> IF e \in stored THEN 1 ELSE 0]
  /\ stamps = [e \in Episodes |-> IF e \in stored THEN 1 ELSE 0]
  /\ task_logs =
       <<ClosedLog("process_podcast",
                   RunStatus(Cardinality(stored), Cardinality(FeedItems(1) \ stored)),
                   Cardinality(FeedItems(1)), Cardinality(stored),
                   Cardinality(FeedItems(1) \ stored))>>
       \o ReprocessLogs(stored)
  /\ isRunning = FALSE
  /\ run = [r \in RunIds |-> NoRun]
  /\ worker = [w \in Workers |-> IdleWorker]
  /\ loop = NoOne
  /\ tempFiles = {}
  /\ nTriggers = 0
  /\ reprocessed = stored

\* The triggers that arrive once a feed's episodes have failed.
RetriggerInit ==
  /\ CallsIdle
  /\ \E stored \in SUBSET FeedItems(1) : AfterFailedRun(stored)
  /\ provider \in {"openai", "dashscope"}

RetriggerSpec == RetriggerInit /\ [][Next]_vars

\* The scheduler on its own: cron ticks and POST /scheduler/trigger, the runs
\* they start, and the database failing under runFullPipeline.
SchedulerNext ==
  \/ ExecuteScheduledTask /\ UNCHANGED callVars
  \/ ExecuteScheduledTaskThrows /\ UNCHANGED callVars
  \/ \E w \in Workers : LimitStart(w) /\ UNCHANGED callVars
  \/ \E w \in Workers : ParseFeedDone(w) /\ UNCHANGED callVars
  \/ \E w \in Workers : ProcessEpisodeEntry(w) /\ UNCHANGED callVars
  \/ \E w \in Workers : DownloadDone(w) /\ UNCHANGED callVars
  \/ \E w \in Workers : TranscribeDone(w) /\ UNCHANGED callVars
  \/ \E w \in Workers : AnalyzeDone(w) /\ UNCHANGED callVars
  \/ \E w \in Workers : Collect(w) /\ UNCHANGED callVars
  \/ \E r \in RunIds : RunFinish(r) /\ UNCHANGED callVars
  \/ \E r \in RunIds : RunFinishThrows(r) /\ UNCHANGED callVars

SchedulerSpec == Init /\ [][SchedulerNext]_vars

TypeOK ==
  /\ episodes \subseteq Episodes
  /\ status \in [Episodes -> {"pending", "processing", "completed", "failed"}]
  /\ \A e \in Episodes : analysis[e] \in 0..saves[e]
  /\ isRunning \in BOOLEAN
  /\ loop \in Workers \cup {NoOne}

(***************************************************************************)
(* Properties                                                              *)
(***************************************************************************)
Last(s) == s[Len(s)]

InFlightPcs == {"downloading", "transcribing", "analyzing"}

\* Worker w has a processEpisode job for e past its 'processing' write and
\* before its 'completed' or 'failed' write.
InFlight(w, e) == worker[w].pc \in InFlightPcs /\ Ep(w) = e

\* Worker w is about to run processEpisode's first block on an episode that
\* has an analysis row / has none and no media locator.
EntersWithAnalysis(w) ==
  loop = w /\ worker[w].pc = "entry" /\ analysis[Ep(w)] # 0

EntersWithoutUrl(w) ==
  loop = w /\ worker[w].pc = "entry" /\ analysis[Ep(w)] = 0 /\ ~audio_url(Ep(w))

\* C1: a processEpisode call that finds an analysis row for its episode
\* returns 'skipped' at once, runs no step, makes no status write and leaves
\* the status, the processed timestamp and the analysis rows as they were.
C1_SkippedWithoutEffect ==
  [][\A w \in Workers :
       EntersWithAnalysis(w) =>
         /\ worker'[w].pc = "returned"
         /\ worker'[w].result = Result("skipped", Ep(w), "")
         /\ worker'[w].ran = {}
         /\ worker'[w].wrote = <<>>
         /\ status' = status
         /\ processed_at' = processed_at
         /\ analysis' = analysis
         /\ saves' = saves
         /\ tempFiles' = tempFiles]_vars

C1_Witness ==
  \E w \in Workers :
    /\ worker[w].pc = "returned"
    /\ worker[w].result.status = "skipped"
    /\ status[Ep(w)] = "completed"

\* C2: as long as no operator asked for a reprocess, saveAnalysisResult has
\* been executed at most once for every episode.
C2_PersistedAtMostOnce ==
  reprocessed = {} => \A e \in Episodes : saves[e] <= 1

\* C3: no episode has two processEpisode jobs between their 'processing'
\* write and their 'completed'/'failed' write at the same time.
C3_OneJobPerEpisode ==
  \A e \in Episodes : Cardinality({w \in Workers : InFlight(w, e)}) <= 1

\* C4: every change of a persisted status is pending -> processing,
\* processing -> completed, processing -> failed, or a reset of a completed
\* or failed episode to pending made by an operator's request.
AllowedChange(e) ==
  \/ <<status[e], status'[e]>> \in {<<"pending", "processing">>,
                                    <<"processing", "completed">>,
                                    <<"processing", "failed">>}
  \/ /\ <<status[e], status'[e]>> \in {<<"completed", "pending">>, <<"failed", "pending">>}
     /\ nTriggers' = nTriggers + 1

C4_StatusStateMachine ==
  [][\A e \in Episodes : status'[e] # status[e] => AllowedChange(e)]_vars

\* C5: a job writes 'completed' only in the block in which its own
\* saveAnalysisResult succeeded, and a job whose rendering or persistence
\* threw has not written 'completed' and has written 'failed' last.
C5_CompletedOnlyAfterSave ==
  [][\A w \in Workers :
       worker[w].pc \in InFlightPcs =>
         /\ (IsIn("completed", worker'[w].wrote) /\ ~IsIn("completed", worker[w].wrote)) =>
               /\ saves'[Ep(w)] = saves[Ep(w)] + 1
               /\ analysis'[Ep(w)] = saves'[Ep(w)]
               /\ "save" \in worker'[w].ran
               /\ worker'[w].result.status = "success"
               /\ Last(worker'[w].wrote) = "completed"
         /\ (worker'[w].result.error \in {"render_throws", "save_throws"}) =>
               /\ ~IsIn("completed", worker'[w].wrote)
               /\ Last(worker'[w].wrote) = "failed"
               /\ status'[Ep(w)] = "failed"
               /\ saves' = saves
               /\ analysis' = analysis]_vars

C5_Witness ==
  \E w \in Workers :
    /\ worker[w].pc = "returned"
    /\ worker[w].result.error = "save_throws"
    /\ worker[w].wrote = <<"processing", "failed">>

\* The messages a step of the try block can throw, by the await it follows.
Thrown(pc) ==
  CASE pc = "downloading" -> {"download failed"}
    [] pc = "transcribing" -> {"transcription failed",
                               "Transcription result too short or empty"}
    [] pc = "analyzing" -> {"analysis_throws", "render_throws", "save_throws"}

\* C6: a job that does not succeed once it is in flight returns a 'failed'
\* result with the thrown message and has set the status to 'failed' (the
\* throw does not leave the loop), and a feed's loop that has ended returns
\* one result per selected episode, in order.
C6_FailedJobReturns ==
  /\ [][\A w \in Workers :
          (worker[w].pc \in InFlightPcs /\ worker'[w].pc \notin InFlightPcs
             /\ worker'[w].result.status # "success") =>
            /\ worker'[w].pc = "returned"
            /\ worker'[w].result.status = "failed"
            /\ worker'[w].result.episodeId = Ep(w)
            /\ worker'[w].result.error \in Thrown(worker[w].pc)
            /\ status'[Ep(w)] = "failed"
            /\ worker'[w].queue = worker[w].queue]_vars
  /\ [](\A w \in Workers :
          (worker[w].kind = "feed" /\ worker[w].pc = "finished") =>
            /\ Len(worker[w].results) = Len(worker[w].selected)
            /\ \A i \in 1..Len(worker[w].selected) :
                 /\ worker[w].results[i].episodeId = worker[w].selected[i]
                 /\ worker[w].results[i].status \in {"success", "failed", "skipped"})

C6_Witness ==
  \E w \in Workers :
    /\ worker[w].kind = "feed"
    /\ worker[w].pc = "finished"
    /\ Len(worker[w].selected) = 2
    /\ worker[w].results[1].status = "failed"
    /\ worker[w].results[1].error = "save_throws"
    /\ worker[w].results[2].status = "success"

\* C7: a processEpisode call on an episode with no analysis row and no media
\* locator returns 'failed' with "No audio URL" at once, without a status
\* write.
C7_NoAudioUrlRejected ==
  [][\A w \in Workers :
       EntersWithoutUrl(w) =>
         /\ worker'[w].pc = "returned"
         /\ worker'[w].result = Result("failed", Ep(w), "No audio URL")
         /\ worker'[w].wrote = <<>>
         /\ worker'[w].ran = {}
         /\ status' = status
         /\ processed_at' = processed_at]_vars

C7_Witness ==
  \E w \in Workers :
    /\ worker[w].pc = "returned"
    /\ worker[w].result = Result("failed", Ep(w), "No audio URL")
    /\ status[Ep(w)] # "processing"

\* C8: once processEpisode has rejected an episode for its missing media
\* locator, the episode's persisted status is 'failed'.
C8_RejectedIsMarkedFailed ==
  \A w \in Workers :
    (worker[w].pc = "returned" /\ worker[w].result.error = "No audio URL") =>
      status[Ep(w)] = "failed"

\* C9: with the download-then-transcribe strategy, when a job has returned,
\* no file it downloaded is left in the temp directory.
C9_NoDownloadLeft ==
  provider = "openai" =>
    \A w \in Workers : worker[w].pc = "returned" => Job(w) \notin tempFiles

\* C10: a job that received a transcription shorter than the minimum length
\* has returned 'failed' without invoking the analysis, the rendering or the
\* persistence and without writing 'completed'.
C10_ShortTranscriptionFails ==
  \A w \in Workers :
    (worker[w].text # NoText /\ worker[w].text < 50) =>
      /\ worker[w].pc = "returned"
      /\ worker[w].result = Result("failed", Ep(w), "Transcription result too short or empty")
      /\ worker[w].ran \cap {"analyze", "render", "save"} = {}
      /\ ~IsIn("completed", worker[w].wrote)
      /\ Last(worker[w].wrote) = "failed"

C10_Witness ==
  \E w \in Workers :
    /\ worker[w].pc = "returned"
    /\ worker[w].text = 49
    /\ worker[w].result.status = "failed"

(***************************************************************************)
(* withRetry, evaluated on its own: one step per settled call of the       *)
(* wrapped operation and one per elapsed sleep                             *)
(***************************************************************************)
MaxAttempts == 5
DefaultMaxDelayMs == 60000

\* The options of the calls evaluated: maxAttempts, baseDelayMs, maxDelayMs.
AttemptLimits == 0..MaxAttempts
BaseDelays == {2000, 15000}
MaxDelays == {DefaultMaxDelayMs, 20000}

\* Values the wrapped operation resolves with.
Values == {"a", "b"}
NoValue == "none"

\* The error thrown by the k-th call of the wrapped operation is k.
NoError == 0 - 1
Unreachable == 0

RECURSIVE Pow2(_)
Pow2(n) == IF n = 0 THEN 1 ELSE 2 * Pow2(n - 1)

Min(a, b) == IF a <= b THEN a ELSE b

\* Math.random() * baseDelayMs * 0.5, by a few values of Math.random().
Jitters(baseDelayMs) == {0, baseDelayMs \div 4, baseDelayMs \div 2}

\* The delay not capped.
DelayUncapped(baseDelayMs, maxDelayMs, attempt, jitter) ==
  baseDelayMs * Pow2(attempt - 1) + jitter

Delay(baseDelayMs, maxDelayMs, attempt, jitter) ==
  Min(baseDelayMs * Pow2(attempt - 1) + jitter, maxDelayMs)

\* The last attempt taken for the one before it.
IsLastAttemptEarly(attempt, maxAttempts) == attempt + 1 = maxAttempts

IsLastAttempt(attempt, maxAttempts) == attempt = maxAttempts

withRetry(maxAttempts, baseDelayMs, maxDelayMs) ==
  [pc |-> "calling", maxAttempts |-> maxAttempts, baseDelayMs |-> baseDelayMs,
   maxDelayMs |-> maxDelayMs, attempt |-> 1,
   outcomes |-> <<>>,   \* per call of the operation: "ok" or "error"
   warnings |-> <<>>,   \* attempt numbers of the retry warnings logged
   jitters |-> <<>>,    \* jitter drawn before each sleep
   sleeps |-> <<>>,     \* delay of each sleep
   value |-> NoValue, error |-> NoError]

\* The loop condition fails: the statement after the loop.
RetryLoopExit ==
  /\ retry.pc = "calling"
  /\ retry.attempt > retry.maxAttempts
  /\ retry' = [retry EXCEPT !.pc = "threw", !.error = Unreachable]

\* await fn() resolves.
FnResolves ==
  /\ retry.pc = "calling"
  /\ retry.attempt <= retry.maxAttempts
  /\ \E v \in Values :
       retry' = [retry EXCEPT !.pc = "returned", !.value = v,
                              !.outcomes = Append(@, "ok")]

\* await fn() rejects: the catch block, up to its await sleep(delay).
FnRejects ==
  /\ retry.pc = "calling"
  /\ retry.attempt <= retry.maxAttempts
  /\ IF IsLastAttempt(retry.attempt, retry.maxAttempts)
       THEN retry' = [retry EXCEPT !.pc = "threw", !.error = retry.attempt,
                                   !.outcomes = Append(@, "error")]
       ELSE \E jitter \in Jitters(retry.baseDelayMs) :
              retry' = [retry EXCEPT
                 !.pc = "sleeping",
                 !.outcomes = Append(@, "error"),
                 !.warnings = Append(@, retry.attempt),
                 !.jitters = Append(@, jitter),
                 !.sleeps = Append(@, Delay(retry.baseDelayMs, retry.maxDelayMs,
                                            retry.attempt, jitter))]

\* The sleep elapses: the next iteration.
SleepDone ==
  /\ retry.pc = "sleeping"
  /\ retry' = [retry EXCEPT !.pc = "calling", !.attempt = @ + 1]

RetryInit ==
  /\ Started
  /\ provider = "dashscope"
  /\ retry \in {withRetry(n, b, m) : n \in AttemptLimits, b \in BaseDelays, m \in MaxDelays}
  /\ chunker = NoCall
  /\ analyzer = NoCall
  /\ normalizer = NoCall
  /\ poller = NoCall
  /\ uploader = NoCall

RetryNext ==
  \/ FnResolves /\ UNCHANGED <<pipelineVars, chunker, analyzer, normalizer, poller, uploader>>
  \/ FnRejects /\ UNCHANGED <<pipelineVars, chunker, analyzer, normalizer, poller, uploader>>
  \/ SleepDone /\ UNCHANGED <<pipelineVars, chunker, analyzer, normalizer, poller, uploader>>
  \/ RetryLoopExit /\ UNCHANGED <<pipelineVars, chunker, analyzer, normalizer, poller, uploader>>

RetrySpec == RetryInit /\ [][RetryNext]_vars

Failures(outcomes) == Cardinality({i \in 1..Len(outcomes) : outcomes[i] = "error"})

RetrySettled(r) == r.pc \in {"returned", "threw"}

\* C11: a withRetry call with maxAttempts = n >= 1 calls the operation at
\* most n times and, once settled, at least once; it returns at the first
\* call that resolves, with that call's value; it throws only after n failed
\* calls, with the error of the n-th; and it has logged one warning and slept
\* once for every failed call except the n-th.
C11_RetryContract ==
  retry.pc # "idle" /\ retry.maxAttempts >= 1 =>
    LET n == retry.maxAttempts
        calls == Len(retry.outcomes)
        failed == Failures(retry.outcomes)
    IN /\ calls <= n
       /\ RetrySettled(retry) => calls >= 1
       /\ \A i \in 1..calls : retry.outcomes[i] = "ok" => i = calls /\ retry.pc = "returned"
       /\ retry.pc = "returned" =>
            /\ retry.outcomes[calls] = "ok"
            /\ retry.value \in Values
            /\ retry.error = NoError
       /\ retry.pc = "threw" =>
            /\ calls = n
            /\ failed = n
            /\ retry.error = n
            /\ retry.value = NoValue
       /\ Len(retry.warnings) = Len(retry.sleeps)
       /\ Len(retry.warnings) = IF failed = n THEN n - 1 ELSE failed
       /\ \A k \in 1..Len(retry.warnings) : retry.warnings[k] = k

C11_Witness ==
  /\ retry.pc = "returned"
  /\ retry.maxAttempts = 3
  /\ retry.outcomes = <<"error", "error", "ok">>
  /\ retry.warnings = <<1, 2>>

AllZero(s) == \A i \in 1..Len(s) : s[i] = 0

\* C12: every delay withRetry sleeps is at most maxDelayMs, whatever the
\* jitter; with every jitter 0 the delay before retry k is
\* min(baseDelayMs * 2^(k-1), maxDelayMs) and no delay is shorter than the one
\* before it.
C12_DelayCapped ==
  retry.pc # "idle" =>
    \A k \in 1..Len(retry.sleeps) :
      /\ retry.sleeps[k] <= retry.maxDelayMs
      /\ AllZero(retry.jitters) =>
           /\ retry.sleeps[k] = Min(retry.baseDelayMs * Pow2(k - 1), retry.maxDelayMs)
           /\ k > 1 => retry.sleeps[k - 1] <= retry.sleeps[k]

C12_Witness ==
  /\ retry.pc # "idle"
  /\ AllZero(retry.jitters)
  /\ Len(retry.sleeps) = 4
  /\ retry.sleeps[1] < retry.sleeps[2]
  /\ retry.sleeps[3] = retry.maxDelayMs
  /\ retry.sleeps[4] = retry.maxDelayMs

(***************************************************************************)
(* Texts.  A text is its length and the characters at a few positions;     *)
(* every other position holds a letter.  Positions count from 0, as the    *)
(* string indices of the code.                                             *)
(***************************************************************************)
Newline == "\n"
Dot == "."
Space == " "
\* The full-width terminators U+3002, U+FF01 and U+FF1F.
IdeographicStop == "U+3002"
WideExclamation == "U+FF01"
WideQuestion == "U+FF1F"
Letter == "x"

Text(n, at) == [length |-> n, at |-> at]

CharAt(t, i) == IF i \in DOMAIN t.at THEN t.at[i] ELSE Letter

Max(S) == CHOOSE m \in S : \A x \in S : x <= m

\* String.prototype.lastIndexOf(c, position) for a one-character c: the
\* greatest index <= position that holds c, or -1.
lastIndexOf(t, c, position) ==
  Max({i \in DOMAIN t.at : i <= position /\ t.at[i] = c} \cup {0 - 1})

\* lastIndexOf('. ', position): the match starts at or before position.
lastIndexOfDotSpace(t, position) ==
  Max({i \in DOMAIN t.at : /\ i <= position
                            /\ t.at[i] = Dot
                            /\ i + 1 < t.length
                            /\ CharAt(t, i + 1) = Space} \cup {0 - 1})

\* The character at the end index taken too.
substringThrough(t, a, b) ==
  LET e == Min(b + 1, t.length)
  IN Text(e - a, [i \in {j - a : j \in {k \in DOMAIN t.at : a <= k /\ k < e}} |-> t.at[i + a]])

\* String.prototype.substring(a, b), for 0 <= a <= b.
substring(t, a, b) ==
  LET e == Min(b, t.length)
  IN Text(e - a, [i \in {j - a : j \in {k \in DOMAIN t.at : a <= k /\ k < e}} |-> t.at[i + a]])

\* a + b on strings.
Plus(a, b) ==
  Text(a.length + b.length,
       [i \in DOMAIN a.at \cup {j + a.length : j \in DOMAIN b.at} |->
          IF i \in DOMAIN a.at THEN a.at[i] ELSE b.at[i - a.length]])

\* chunks.join('')
RECURSIVE Join(_)
Join(chunks) ==
  IF chunks = <<>> THEN Text(0, <<>>) ELSE Plus(Head(chunks), Join(Tail(chunks)))

(***************************************************************************)
(* splitIntoChunks, evaluated on its own: one step per loop iteration      *)
(***************************************************************************)
CHUNK_MAX_CHARS == 8000
MaxMarks == 2

\* No threshold: any match that lastIndexOf found is taken.
PastThresholdIgnored(i, start, maxChars) == i >= 0

\* The threshold met by an index at 70% of the budget too.
PastThresholdInclusive(i, start, maxChars) == 10 * i >= 10 * start + 7 * maxChars

\* i > start + maxChars * 0.7 (the product in floating point is exact for the
\* budgets evaluated: 0.7, 7 and 5600).
PastThreshold(i, start, maxChars) == 10 * i > 10 * start + 7 * maxChars

lastPeriod(t, end) ==
  Max({lastIndexOf(t, IdeographicStop, end), lastIndexOfDotSpace(t, end),
       lastIndexOf(t, WideExclamation, end), lastIndexOf(t, WideQuestion, end)})

\* The end of the chunk that starts at start, when start + maxChars is
\* inside the text.
CutEnd(t, start, maxChars) ==
  LET end == start + maxChars
      lastNewline == lastIndexOf(t, Newline, end)
  IN IF PastThreshold(lastNewline, start, maxChars) THEN lastNewline + 1
     ELSE IF PastThreshold(lastPeriod(t, end), start, maxChars) THEN lastPeriod(t, end) + 1
     ELSE end

splitIntoChunks(text, maxChars) ==
  [pc |-> "called", text |-> text, maxChars |-> maxChars, start |-> 0,
   chunks |-> <<>>,
   cuts |-> <<>>]      \* <<start, end>> of every chunk cut inside the text

\* if (text.length <= maxChars) return [text]; otherwise enter the loop.
SplitEnter ==
  /\ chunker.pc = "called"
  /\ chunker' = IF chunker.text.length <= chunker.maxChars
                  THEN [chunker EXCEPT !.pc = "returned", !.chunks = <<chunker.text>>]
                  ELSE [chunker EXCEPT !.pc = "loop"]

\* One iteration of the loop.
SplitIteration ==
  /\ chunker.pc = "loop"
  /\ chunker.start < chunker.text.length
  /\ LET t == chunker.text
         start == chunker.start
         end == CutEnd(t, start, chunker.maxChars)
     IN chunker' =
          IF start + chunker.maxChars >= t.length
            THEN [chunker EXCEPT !.pc = "returned",
                                 !.chunks = Append(@, substring(t, start, t.length))]
            ELSE [chunker EXCEPT !.chunks = Append(@, substring(t, start, end)),
                                 !.cuts = Append(@, <<start, end>>),
                                 !.start = end]

\* The loop condition fails.
SplitLoopExit ==
  /\ chunker.pc = "loop"
  /\ chunker.start >= chunker.text.length
  /\ chunker' = [chunker EXCEPT !.pc = "returned"]

\* The budgets, lengths and texts evaluated.
Budgets == {1, 10, CHUNK_MAX_CHARS}

Lengths(m) == {0, m, m + 1, 2 * m + 1, 2 * m + 2}

\* Positions at 70% and at the end of the window that starts at s.
Near(m, s) == {s + (7 * m) \div 10, s + (7 * m) \div 10 + 1, s + m, s + m + 1}

Positions(m) == Near(m, 0) \cup Near(m, m) \cup {m - 1}

Marks == {Newline, IdeographicStop, WideExclamation, WideQuestion, Dot, Space}

\* The functions from at most k of the positions P to a mark.
RECURSIVE Marked(_, _)
Marked(P, k) ==
  IF k = 0 THEN {<<>>}
  ELSE LET less == Marked(P, k - 1)
       IN less \cup {[i \in DOMAIN f \cup {p} |-> IF i = p THEN c ELSE f[i]] :
                       f \in less, p \in P, c \in Marks}

Texts(m) ==
  UNION {{Text(n, at) : at \in Marked({p \in Positions(m) : p < n}, MaxMarks)} :
           n \in Lengths(m)}

SplitInit ==
  /\ Started
  /\ provider = "dashscope"
  /\ retry = NoCall
  /\ \E m \in Budgets : chunker \in {splitIntoChunks(t, m) : t \in Texts(m)}
  /\ analyzer = NoCall
  /\ normalizer = NoCall
  /\ poller = NoCall
  /\ uploader = NoCall

SplitNext ==
  \/ SplitEnter /\ UNCHANGED <<pipelineVars, retry, analyzer, normalizer, poller, uploader>>
  \/ SplitIteration /\ UNCHANGED <<pipelineVars, retry, analyzer, normalizer, poller, uploader>>
  \/ SplitLoopExit /\ UNCHANGED <<pipelineVars, retry, analyzer, normalizer, poller, uploader>>

SplitSpec == SplitInit /\ [][SplitNext]_vars

\* C13: the chunks splitIntoChunks returns, concatenated in order, are the
\* text it was given.
C13_ChunksReassemble ==
  chunker.pc = "returned" => Join(chunker.chunks) = chunker.text

C13_Witness ==
  /\ chunker.pc = "returned"
  /\ Len(chunker.chunks) = 3
  /\ Len(chunker.cuts) = 2
  /\ chunker.cuts[1][2] # chunker.maxChars
  /\ Join(chunker.chunks) = chunker.text

\* C14: no chunk splitIntoChunks has produced is longer than maxChars.
C14_ChunkWithinBudget ==
  chunker.pc # "idle" =>
    \A i \in 1..Len(chunker.chunks) : chunker.chunks[i].length <= chunker.maxChars

\* Index i of t holds a sentence terminator as the code searches them.
IsTerminator(t, i) ==
  \/ CharAt(t, i) \in {IdeographicStop, WideExclamation, WideQuestion}
  \/ CharAt(t, i) = Dot /\ i + 1 < t.length /\ CharAt(t, i + 1) = Space

\* The window of maxChars characters from start holds a newline / a sentence
\* terminator at or after 70% of the budget.
NewlineInLast30(t, start, maxChars) ==
  \E i \in DOMAIN t.at :
    /\ t.at[i] = Newline
    /\ 10 * i >= 10 * start + 7 * maxChars
    /\ i < start + maxChars

TerminatorInLast30(t, start, maxChars) ==
  \E i \in DOMAIN t.at :
    /\ IsTerminator(t, i)
    /\ 10 * i >= 10 * start + 7 * maxChars
    /\ i < start + maxChars

\* C15: a chunk cut inside the text ends with a newline when its budget
\* window holds a newline at or after 70% of the budget, and ends with a
\* newline or a sentence terminator (never at the bare budget offset) when
\* the window holds a sentence terminator at or after 70%.
C15_CutAtParagraph ==
  chunker.pc # "idle" =>
    \A k \in 1..Len(chunker.cuts) :
      LET t == chunker.text
          start == chunker.cuts[k][1]
          end == chunker.cuts[k][2]
      IN /\ NewlineInLast30(t, start, chunker.maxChars) => CharAt(t, end - 1) = Newline
         /\ TerminatorInLast30(t, start, chunker.maxChars) =>
              CharAt(t, end - 1) = Newline \/ IsTerminator(t, end - 1)

(***************************************************************************)
(* normalizeAnalysisResult, evaluated on its own.  A JSON value is a       *)
(* record tagged with its type; an absent member of an object is           *)
(* Undefined, as a property read of the code gives.                        *)
(***************************************************************************)
Undefined == [t |-> "undefined"]
Null == [t |-> "null"]
Str(s) == [t |-> "string", s |-> s]
Num(n) == [t |-> "number", n |-> n]
Arr(items) == [t |-> "array", items |-> items]
Obj(members) == [t |-> "object", members |-> members]

\* The placeholder summaries of lines 438 and 482, and category of line 467.
SummaryUnavailable == Str("analysis result unavailable")
SummaryParseFailed == Str("analysis result could not be parsed")
OtherCategory == Str("other")

\* v.key; the caller has excluded null and undefined, on which it throws.
Get(v, key) ==
  IF v.t = "object" /\ key \in DOMAIN v.members THEN v.members[key] ELSE Undefined

Nullish(v) == v.t \in {"null", "undefined"}

Truthy(v) ==
  CASE v.t = "string" -> v.s # ""
    [] v.t = "number" -> v.n # 0
    [] v.t \in {"null", "undefined"} -> FALSE
    [] OTHER -> TRUE

\* a || b
Or(a, b) == IF Truthy(a) THEN a ELSE b

IsString(v) == v.t = "string"
IsArray(v) == v.t = "array"

KeyPointOf(p) ==
  IF IsString(p) THEN [title |-> p, detail |-> Str("")]
  ELSE [title |-> Or(Get(p, "title"), Str("")), detail |-> Or(Get(p, "detail"), Str(""))]

KeywordOf(k) ==
  [word |-> Or(Get(k, "word"), Or(Get(k, "term"), Str(""))),
   context |-> Or(Get(k, "context"), Or(Get(k, "explanation"), Str("")))]

MainArgumentOf(arg) ==
  [title |-> Or(Get(arg, "title"), Str("")),
   summary |-> Or(Get(arg, "summary"), Str("")),
   details |-> Or(Get(arg, "details"), Str("")),
   relatedQuotes |-> IF IsArray(Get(arg, "relatedQuotes"))
                       THEN Get(arg, "relatedQuotes").items ELSE <<>>]

KnowledgePointOf(p) ==
  [term |-> Or(Get(p, "term"), Str("")),
   explanation |-> Or(Get(p, "explanation"), Str("")),
   context |-> Or(Get(p, "context"), Str(""))]

\* Array.isArray(v) ? v.map(callback) : [], for each of the arrays.
KeyPointsOf(v) ==
  IF IsArray(v) THEN [i \in 1..Len(v.items) |-> KeyPointOf(v.items[i])] ELSE <<>>

KeywordsOf(v) ==
  IF IsArray(v) THEN [i \in 1..Len(v.items) |-> KeywordOf(v.items[i])] ELSE <<>>

MainArgumentsOf(v) ==
  IF IsArray(v) THEN [i \in 1..Len(v.items) |-> MainArgumentOf(v.items[i])] ELSE <<>>

KnowledgePointsOf(v) ==
  IF IsArray(v) THEN [i \in 1..Len(v.items) |-> KnowledgePointOf(v.items[i])] ELSE <<>>

KnowledgeCategoryOf(cat) ==
  [category |-> Or(Get(cat, "category"), OtherCategory),
   points |-> KnowledgePointsOf(Get(cat, "points"))]

KnowledgeCategoriesOf(v) ==
  IF IsArray(v) THEN [i \in 1..Len(v.items) |-> KnowledgeCategoryOf(v.items[i])] ELSE <<>>

\* A property read on null inside a map callback: v is an array with a null
\* element.
HasNull(v) == IsArray(v) /\ \E i \in 1..Len(v.items) : Nullish(v.items[i])

\* The try block throws: JSON.parse fails, the parsed value is null, or a
\* map callback reads a property of a null element.
TryThrows(input) ==
  \/ ~input.parses
  \/ Nullish(input.data)
  \/ \E f \in {"keyPoints", "keywords", "mainArguments", "knowledgePoints"} :
       HasNull(Get(input.data, f))
  \/ LET cats == Get(input.data, "knowledgePoints")
     IN IsArray(cats) /\ \E i \in 1..Len(cats.items) : HasNull(Get(cats.items[i], "points"))

\* The value the try block returns when nothing throws.
TryResult(data) ==
  [summary |-> IF IsString(Get(data, "summary")) THEN Get(data, "summary")
               ELSE SummaryUnavailable,
   keyPoints |-> KeyPointsOf(Get(data, "keyPoints")),
   keywords |-> KeywordsOf(Get(data, "keywords")),
   fullRecap |-> IF IsString(Get(data, "fullRecap")) THEN Get(data, "fullRecap")
                 ELSE Str(""),
   mainArguments |-> MainArgumentsOf(Get(data, "mainArguments")),
   knowledgePoints |-> KnowledgeCategoriesOf(Get(data, "knowledgePoints"))]

ParseFailed ==
  [summary |-> SummaryParseFailed, keyPoints |-> <<>>, keywords |-> <<>>,
   fullRecap |-> Str(""), mainArguments |-> <<>>, knowledgePoints |-> <<>>]

\* The error passed on to the caller.
Rethrown == [threw |-> TRUE, out |-> ParseFailed]

\* The catch block: log and return the parse-failure output.
Caught == [threw |-> FALSE, out |-> ParseFailed]

normalizeAnalysisResult(input) ==
  IF TryThrows(input) THEN Caught ELSE [threw |-> FALSE, out |-> TryResult(input.data)]

\* The call returns.
NormalizeReturns ==
  /\ normalizer.pc = "called"
  /\ normalizer' = [normalizer EXCEPT !.pc = "returned",
                                      !.result = normalizeAnalysisResult(normalizer.input)]

\* The strings evaluated: an unparsable one, and the JSON texts of the values
\* below.
KeyPointValues ==
  {Undefined, Str("points"), Arr(<<>>), Arr(<<Null>>), Arr(<<Str("p")>>), Arr(<<Num(5)>>),
   Arr(<<Obj([title |-> Str("t"), detail |-> Str("d")])>>),
   Arr(<<Obj([title |-> Str("t")]), Null>>)}

KeywordValues ==
  {Undefined, Obj([word |-> Str("w")]), Arr(<<Null>>),
   Arr(<<Obj([word |-> Str("w"), context |-> Str("c")])>>),
   Arr(<<Obj([term |-> Str("w"), explanation |-> Str("c")])>>)}

MainArgumentValues ==
  {Undefined, Arr(<<Null>>), Arr(<<Obj([title |-> Str("t"), relatedQuotes |-> Str("q")])>>)}

KnowledgePointValues ==
  {Undefined, Arr(<<Obj([category |-> Str(""), points |-> Arr(<<Null>>)])>>),
   Arr(<<Obj([points |-> Arr(<<Obj([term |-> Str("k")])>>)])>>)}

Objects ==
  {Obj([summary |-> a, keyPoints |-> b, keywords |-> c, fullRecap |-> d,
        mainArguments |-> e, knowledgePoints |-> f]) :
     a \in {Undefined, Str("s"), Str(""), Num(1), Null},
     b \in KeyPointValues, c \in KeywordValues,
     d \in {Undefined, Str("r"), Arr(<<>>)},
     e \in MainArgumentValues, f \in KnowledgePointValues}

Inputs ==
  {[parses |-> FALSE, data |-> Undefined]}
    \cup {[parses |-> TRUE, data |-> v] :
            v \in Objects \cup {Null, Num(1), Str("text"), Arr(<<>>), Obj(<<>>)}}

NormalizerInit ==
  /\ Started
  /\ provider = "dashscope"
  /\ retry = NoCall
  /\ chunker = NoCall
  /\ analyzer = NoCall
  /\ normalizer \in {[pc |-> "called", input |-> i, result |-> Caught] : i \in Inputs}
  /\ poller = NoCall
  /\ uploader = NoCall

NormalizerNext ==
  NormalizeReturns /\ UNCHANGED <<pipelineVars, retry, chunker, analyzer, poller, uploader>>

NormalizerSpec == NormalizerInit /\ [][NormalizerNext]_vars

IsSequence(v) == DOMAIN v = 1..Len(v)

\* Every field of AnalysisOutput is present: two strings and four arrays,
\* the key points and keywords with their two members each.
Complete(out) ==
  /\ DOMAIN out = {"summary", "keyPoints", "keywords", "fullRecap",
                   "mainArguments", "knowledgePoints"}
  /\ IsString(out.summary)
  /\ IsString(out.fullRecap)
  /\ IsSequence(out.keyPoints)
  /\ IsSequence(out.keywords)
  /\ IsSequence(out.mainArguments)
  /\ IsSequence(out.knowledgePoints)
  /\ \A i \in 1..Len(out.keyPoints) : DOMAIN out.keyPoints[i] = {"title", "detail"}
  /\ \A i \in 1..Len(out.keywords) : DOMAIN out.keywords[i] = {"word", "context"}

ParsedObject(input) == input.parses /\ input.data.t = "object"

\* C19: normalizeAnalysisResult returns for every input without throwing,
\* and what it returns is a complete AnalysisOutput; for a parsable object
\* with neither keyPoints nor keywords the two arrays are empty and the
\* summary is a string: the given one, or a placeholder.
C19_NormalizeNeverThrows ==
  normalizer.pc = "returned" =>
    LET input == normalizer.input
        out == normalizer.result.out
    IN /\ ~normalizer.result.threw
       /\ Complete(out)
       /\ (/\ ParsedObject(input)
           /\ Get(input.data, "keyPoints").t = "undefined"
           /\ Get(input.data, "keywords").t = "undefined") =>
            /\ out.keyPoints = <<>>
            /\ out.keywords = <<>>
            /\ IsString(out.summary)
            /\ \/ IsString(Get(input.data, "summary"))
                    /\ out.summary.s = Get(input.data, "summary").s
               \/ out.summary.s \in {SummaryUnavailable.s, SummaryParseFailed.s}

C19_Witness ==
  /\ normalizer.pc = "returned"
  /\ ParsedObject(normalizer.input)
  /\ \A f \in {"summary", "keyPoints", "keywords"} :
       Get(normalizer.input.data, f).t = "undefined"
  /\ ~normalizer.result.threw
  /\ normalizer.result.out.summary = SummaryUnavailable
  /\ normalizer.result.out.keyPoints = <<>>
  /\ normalizer.result.out.keywords = <<>>

\* C20: for a parsable object, each of summary, fullRecap, keyPoints and
\* keywords is normalised on its own: a string summary or fullRecap is kept
\* and any other value replaced by its default; a keyPoints or keywords
\* value that is no array gives an empty array, and one that is an array
\* gives one element per element, the default element for a null one.
C20_FieldByField ==
  (normalizer.pc = "returned" /\ ParsedObject(normalizer.input)) =>
    LET data == normalizer.input.data
        out == normalizer.result.out
    IN /\ out.summary.s = IF IsString(Get(data, "summary"))
                            THEN Get(data, "summary").s ELSE SummaryUnavailable.s
       /\ out.fullRecap.s = IF IsString(Get(data, "fullRecap"))
                              THEN Get(data, "fullRecap").s ELSE ""
       /\ Len(out.keyPoints) = IF IsArray(Get(data, "keyPoints"))
                                 THEN Len(Get(data, "keyPoints").items) ELSE 0
       /\ Len(out.keywords) = IF IsArray(Get(data, "keywords"))
                                THEN Len(Get(data, "keywords").items) ELSE 0
       /\ \A i \in 1..Len(out.keyPoints) :
            Nullish(Get(data, "keyPoints").items[i]) =>
              out.keyPoints[i] = [title |-> Str(""), detail |-> Str("")]
       /\ \A i \in 1..Len(out.keywords) :
            Nullish(Get(data, "keywords").items[i]) =>
              out.keywords[i] = [word |-> Str(""), context |-> Str("")]

(***************************************************************************)
(* analyzeContent, evaluated on its own: one step per model request (the   *)
(* request, the check of its response and, when it is retried, the sleep   *)
(* before the next attempt), then the caller's step on its outcome         *)
(***************************************************************************)
SINGLE_ANALYSIS_MAX_CHARS == 10000
AnalysisAttempts == 3
MinContentLength == 10
MinSummaryLength == 50

\* A response is the length of its content; ApiError is a rejected request.
ApiError == 0 - 1
Responses == {ApiError, 0, MinContentLength - 1, MinContentLength,
              MinSummaryLength - 1, MinSummaryLength}

\* splitIntoChunks as a function: the chunks from index start on.
RECURSIVE ChunksFrom(_, _, _)
ChunksFrom(t, start, maxChars) ==
  IF start >= t.length THEN <<>>
  ELSE IF start + maxChars >= t.length THEN <<substring(t, start, t.length)>>
  ELSE LET end == CutEnd(t, start, maxChars)
       IN <<substring(t, start, end)>> \o ChunksFrom(t, end, maxChars)

Chunks(t, maxChars) == IF t.length <= maxChars THEN <<t>> ELSE ChunksFrom(t, 0, maxChars)

\* The single pass taken below the threshold only.
UseSinglePassBelow(transcript) == transcript.length < SINGLE_ANALYSIS_MAX_CHARS

UseSinglePass(transcript) == transcript.length <= SINGLE_ANALYSIS_MAX_CHARS

\* The response check of the single-pass and merge requests, and of a chunk
\* summary request.
ContentAccepted(response) == response # ApiError /\ response >= MinContentLength

SummaryAccepted(response) == response # ApiError /\ response >= MinSummaryLength

\* The merge issued without the last chunk's summary.
AfterChunkSkipLast(i, n) == IF i + 1 < n THEN "chunk" ELSE "validate"

\* After the summary of chunk i of n: the next chunk, or the validation.
AfterChunk(i, n) == IF i < n THEN "chunk" ELSE "validate"

\* A chunk whose retries are exhausted passed over with an empty summary.
AfterChunkFailureSkip(i, n) == AfterChunk(i, n)

\* withRetry rethrows the last attempt's error out of chunkedAnalysis.
AfterChunkFailure(i, n) == "threw"

Request(kind, chunk, attempt) == [kind |-> kind, chunk |-> chunk, attempt |-> attempt]

\* The content of a response to a structured-analysis request: its length
\* and what JSON.parse makes of it.
NoContent == [length |-> ApiError, body |-> "none"]

Bodies(response) ==
  IF response < 1 THEN {"none"}
  ELSE IF response < MinContentLength THEN {"malformed", "missing_fields"}
  ELSE {"well_formed", "malformed", "missing_fields", "null_element"}

JsonOf(body) ==
  CASE body = "well_formed" ->
         [parses |-> TRUE,
          data |-> Obj([summary |-> Str("s"),
                        keyPoints |-> Arr(<<Obj([title |-> Str("t"), detail |-> Str("d")])>>),
                        keywords |-> Arr(<<Obj([word |-> Str("w"), context |-> Str("c")])>>),
                        fullRecap |-> Str("r")])]
    [] body = "missing_fields" -> [parses |-> TRUE, data |-> Obj([fullRecap |-> Str("r")])]
    [] body = "null_element" ->
         [parses |-> TRUE,
          data |-> Obj([summary |-> Str("s"), keyPoints |-> Arr(<<Null>>)])]
    [] OTHER -> [parses |-> FALSE, data |-> Undefined]

\* A structured-analysis request (single-pass or merge) settles with a
\* response of the given length and body: the length check inside withRetry,
\* then normalizeAnalysisResult on the accepted content.
StructuredRequest(kind, response, body) ==
  LET asked == Append(analyzer.requests, Request(kind, 0, analyzer.attempt))
      content == [length |-> response, body |-> body]
      normal == normalizeAnalysisResult(JsonOf(body))
  IN IF ContentAccepted(response)
       THEN [analyzer EXCEPT !.pc = IF normal.threw THEN "threw" ELSE "returned",
                             !.normalized = IF normal.threw THEN @ ELSE <<normal.out>>,
                             !.content = content,
                             !.requests = asked]
       ELSE [analyzer EXCEPT
               !.pc = IF IsLastAttempt(analyzer.attempt, AnalysisAttempts)
                        THEN "threw" ELSE analyzer.pc,
               !.attempt = @ + 1,
               !.retried = TRUE,
               !.content = content,
               !.requests = asked]

analyzeContent(transcript) ==
  [pc |-> "called", transcript |-> transcript, chunks |-> <<>>,
   i |-> 0,                 \* chunk being summarised (1-based), 0 outside phase 1
   attempt |-> 0,           \* attempt of the current withRetry call
   chunkSummaries |-> <<>>, \* content lengths of the summaries collected
   requests |-> <<>>,       \* chat.completions.create calls issued
   retried |-> FALSE,       \* some request was not accepted
   failedChunk |-> 0,       \* chunk whose retries were exhausted, if any
   content |-> NoContent,   \* the last response to a structured-analysis request
   normalized |-> <<>>,     \* the AnalysisOutput returned, once there is one
   saved |-> FALSE,         \* saveAnalysisResult called by processEpisode
   status |-> "processing", \* the episode's status
   result |-> "none"]       \* status of the ProcessingResult of the job

\* analyzeContent up to its first request.
AnalyzeContentEnter ==
  /\ analyzer.pc = "called"
  /\ analyzer' =
       IF UseSinglePass(analyzer.transcript)
         THEN [analyzer EXCEPT !.pc = "single", !.attempt = 1]
         ELSE [analyzer EXCEPT !.pc = "chunk", !.attempt = 1, !.i = 1,
                               !.chunks = Chunks(analyzer.transcript, CHUNK_MAX_CHARS)]

\* A request of singlePassAnalysis settles.
SinglePassRequest ==
  /\ analyzer.pc = "single"
  /\ \E response \in Responses : \E body \in Bodies(response) :
       analyzer' = StructuredRequest("single", response, body)

\* A summary request of chunk i settles.
ChunkSummaryRequest ==
  /\ analyzer.pc = "chunk"
  /\ \E response \in Responses :
       LET n == Len(analyzer.chunks)
           asked == Append(analyzer.requests, Request("chunk", analyzer.i, analyzer.attempt))
       IN analyzer' =
            IF SummaryAccepted(response)
              THEN [analyzer EXCEPT !.pc = AfterChunk(analyzer.i, n),
                                    !.i = @ + 1, !.attempt = 1,
                                    !.chunkSummaries = Append(@, response),
                                    !.requests = asked]
            ELSE IF ~IsLastAttempt(analyzer.attempt, AnalysisAttempts)
              THEN [analyzer EXCEPT !.attempt = @ + 1, !.retried = TRUE, !.requests = asked]
            ELSE [analyzer EXCEPT !.pc = AfterChunkFailure(analyzer.i, n),
                                  !.i = @ + 1, !.attempt = 1,
                                  !.retried = TRUE,
                                  !.failedChunk = analyzer.i,
                                  !.chunkSummaries =
                                     IF AfterChunkFailure(analyzer.i, n) = "threw"
                                       THEN @ ELSE Append(@, 0),
                                  !.requests = asked]

\* The check of the collected summaries before the merge.
ValidateSummaries ==
  /\ analyzer.pc = "validate"
  /\ analyzer' =
       IF \E k \in 1..Len(analyzer.chunkSummaries) :
            analyzer.chunkSummaries[k] < MinSummaryLength
         THEN [analyzer EXCEPT !.pc = "threw", !.i = 0]
         ELSE [analyzer EXCEPT !.pc = "merge", !.i = 0, !.attempt = 1]

\* A merge request settles.
MergeRequest ==
  /\ analyzer.pc = "merge"
  /\ \E response \in Responses : \E body \in Bodies(response) :
       analyzer' = StructuredRequest("merge", response, body)

\* processEpisode on the outcome: render and save the analysis returned, or
\* catch what was thrown.
ProcessEpisodeOnAnalysis ==
  /\ analyzer.pc \in {"returned", "threw"}
  /\ analyzer' = IF analyzer.pc = "returned"
                   THEN [analyzer EXCEPT !.pc = "completed", !.saved = TRUE,
                                         !.status = Last(TryWrites("ok")),
                                         !.result = "success"]
                   ELSE [analyzer EXCEPT !.pc = "failed",
                                         !.status = Last(CatchWrites(TRUE)),
                                         !.result = "failed"]

\* The transcripts evaluated.
TranscriptLengths == {500, SINGLE_ANALYSIS_MAX_CHARS, SINGLE_ANALYSIS_MAX_CHARS + 1,
                      2 * CHUNK_MAX_CHARS, 2 * CHUNK_MAX_CHARS + 1, 50000}

\* One character of the first budget window may be a newline, a terminator,
\* a dot or a space (in the transcripts of up to two budgets and a character).
Transcripts ==
  UNION {{Text(n, at) : at \in Marked({p \in {7000, CHUNK_MAX_CHARS} :
                                          p < n /\ n <= 2 * CHUNK_MAX_CHARS + 1}, 1)} :
           n \in TranscriptLengths}

AnalyzerInit ==
  /\ Started
  /\ provider = "dashscope"
  /\ retry = NoCall
  /\ chunker = NoCall
  /\ analyzer \in {analyzeContent(t) : t \in Transcripts}
  /\ normalizer = NoCall
  /\ poller = NoCall
  /\ uploader = NoCall

AnalyzerNext ==
  \/ AnalyzeContentEnter /\ UNCHANGED <<pipelineVars, retry, chunker, normalizer, poller, uploader>>
  \/ SinglePassRequest /\ UNCHANGED <<pipelineVars, retry, chunker, normalizer, poller, uploader>>
  \/ ChunkSummaryRequest /\ UNCHANGED <<pipelineVars, retry, chunker, normalizer, poller, uploader>>
  \/ ValidateSummaries /\ UNCHANGED <<pipelineVars, retry, chunker, normalizer, poller, uploader>>
  \/ MergeRequest /\ UNCHANGED <<pipelineVars, retry, chunker, normalizer, poller, uploader>>
  \/ ProcessEpisodeOnAnalysis /\ UNCHANGED <<pipelineVars, retry, chunker, normalizer, poller, uploader>>

AnalyzerSpec == AnalyzerInit /\ [][AnalyzerNext]_vars

Ceil(a, b) == (a + b - 1) \div b

\* The requests of a chunked analysis of n chunks in which every request is
\* accepted at its first attempt.
RECURSIVE ChunkRequests(_)
ChunkRequests(n) ==
  IF n = 0 THEN <<>> ELSE Append(ChunkRequests(n - 1), Request("chunk", n, 1))

CleanChunkedRun(n) == Append(ChunkRequests(n), Request("merge", 0, 1))

LongTranscript == analyzer.transcript.length > SINGLE_ANALYSIS_MAX_CHARS

\* No chunk boundary can be moved: the transcript has no newline and no
\* terminator.
Unbroken(t) == DOMAIN t.at = {}

\* C16 as stated: an analysis of a transcript longer than the single-pass
\* threshold that returned with every request accepted at its first attempt
\* has issued ceil(length / CHUNK_MAX_CHARS) chunk-summary requests, in
\* order, then one merge request.
C16_CeilRequests ==
  (analyzer.pc = "returned" /\ LongTranscript /\ ~analyzer.retried) =>
    analyzer.requests = CleanChunkedRun(Ceil(analyzer.transcript.length, CHUNK_MAX_CHARS))

\* C16 amended: such an analysis has issued one chunk-summary request per
\* chunk that splitIntoChunks returns for the transcript, in chunk order,
\* then one merge request; the chunks number ceil(length / CHUNK_MAX_CHARS)
\* when the transcript has no newline and no terminator to move a boundary.
C16_OneRequestPerChunk ==
  (analyzer.pc = "returned" /\ LongTranscript /\ ~analyzer.retried) =>
    /\ analyzer.chunks = Chunks(analyzer.transcript, CHUNK_MAX_CHARS)
    /\ analyzer.requests = CleanChunkedRun(Len(analyzer.chunks))
    /\ Unbroken(analyzer.transcript) =>
         Len(analyzer.chunks) = Ceil(analyzer.transcript.length, CHUNK_MAX_CHARS)

C16_Witness ==
  /\ analyzer.pc = "returned"
  /\ ~analyzer.retried
  /\ analyzer.transcript.length = 50000
  /\ Len(analyzer.requests) = 8
  /\ \A k \in 1..7 : analyzer.requests[k] = Request("chunk", k, 1)
  /\ analyzer.requests[8] = Request("merge", 0, 1)

\* C17: every request of an analysis of a transcript of at most
\* SINGLE_ANALYSIS_MAX_CHARS characters is a single-pass request, and exactly
\* one is issued when it is accepted at once; no request of an analysis of a
\* longer transcript is a single-pass request.
C17_SinglePassByLength ==
  analyzer.pc # "idle" =>
    /\ \A k \in 1..Len(analyzer.requests) :
         analyzer.requests[k].kind = "single" <=> ~LongTranscript
    /\ (~LongTranscript /\ analyzer.pc = "returned" /\ ~analyzer.retried) =>
         analyzer.requests = <<Request("single", 0, 1)>>
    /\ (~LongTranscript) => analyzer.chunks = <<>>

C17_Witness ==
  /\ analyzer.pc = "returned"
  /\ analyzer.transcript.length = SINGLE_ANALYSIS_MAX_CHARS
  /\ analyzer.requests = <<Request("single", 0, 1)>>

\* C18: once the summary request of a chunk has failed at its last attempt,
\* the analysis has thrown: no request of a later chunk and no merge request
\* is ever issued, and the job saves no analysis.
C18_ChunkFailureAborts ==
  (analyzer.pc # "idle" /\ analyzer.failedChunk # 0) =>
    /\ analyzer.pc \in {"threw", "failed"}
    /\ ~analyzer.saved
    /\ analyzer.requests[Len(analyzer.requests)] =
         Request("chunk", analyzer.failedChunk, AnalysisAttempts)
    /\ \A k \in 1..Len(analyzer.requests) :
         /\ analyzer.requests[k].kind = "chunk"
         /\ analyzer.requests[k].chunk <= analyzer.failedChunk

C18_Witness ==
  /\ analyzer.pc = "failed"
  /\ analyzer.failedChunk = 1
  /\ Len(analyzer.chunks) = 3
  /\ Len(analyzer.requests) = AnalysisAttempts
  /\ ~analyzer.saved

UnusableBodies == {"malformed", "missing_fields"}

PlaceholderOutput(out) ==
  /\ out.summary \in {SummaryParseFailed, SummaryUnavailable}
  /\ out.keyPoints = <<>>
  /\ out.keywords = <<>>

\* C21 as stated: a job does not fail on a structured-analysis response that
\* is non-empty and is malformed JSON or lacks the expected fields.
C21_NonEmptyMalformedNeverFails ==
  analyzer.pc = "failed" =>
    ~(analyzer.content.length >= 1 /\ analyzer.content.body \in UnusableBodies)

\* C21 amended: once a structured-analysis response of at least
\* MinContentLength characters that is malformed JSON or lacks the expected
\* fields has been received, analyzeContent has returned, and the job ends
\* with result 'success', an analysis of placeholder values saved and the
\* episode 'completed'.
C21_AcceptedMalformedCompletes ==
  (/\ analyzer.pc # "idle"
   /\ analyzer.content.length >= MinContentLength
   /\ analyzer.content.body \in UnusableBodies) =>
    /\ analyzer.pc \in {"returned", "completed"}
    /\ Len(analyzer.normalized) = 1
    /\ PlaceholderOutput(analyzer.normalized[1])
    /\ analyzer.pc = "completed" =>
         /\ analyzer.result = "success"
         /\ analyzer.saved
         /\ analyzer.status = "completed"

C21_Witness ==
  /\ analyzer.pc = "completed"
  /\ analyzer.content.body = "malformed"
  /\ analyzer.normalized = <<ParseFailed>>
  /\ analyzer.result = "success"
  /\ analyzer.saved

FullRun(r) == run[r].kind \in {"scheduled", "manual"}

\* C22: the feed tasks of one full run that are in flight never number more
\* than maxConcurrentFeeds, and every feed task queued by a full run is
\* eventually started and finished (its loop returns or throws).
C22_BoundedFanOut ==
  /\ [](\A r \in RunIds : FullRun(r) => ActiveCount(r) <= MaxConcurrentFeeds)
  /\ \A w \in Workers :
       (FullRun(w[1]) /\ worker[w].pc = "queued") ~> (worker[w].pc \in {"finished", "threw"})

C22_Witness ==
  \E r \in RunIds :
    /\ FullRun(r)
    /\ ActiveCount(r) = MaxConcurrentFeeds
    /\ \E w \in WorkersOf(r) : worker[w].pc = "queued"
    /\ \E w \in WorkersOf(r) : worker[w].pc = "analyzing"

\* The results of status st that the feeds ws returned, counted feed by feed;
\* st = "any" counts them all.
RECURSIVE Tally(_, _)
Tally(ws, st) ==
  IF ws = {} THEN 0
  ELSE LET w == CHOOSE x \in ws : TRUE
       IN (IF st = "any" THEN Len(worker[w].results) ELSE Count(worker[w].results, st))
          + Tally(ws \ {w}, st)

ReturnedIn(r) == {w \in WorkersOf(r) : worker[w].pc = "finished"}

ThrewIn(r) == {w \in WorkersOf(r) : worker[w].pc = "threw"}

\* The step in which run r ends.
Finishes(r) == run[r].pc = "running" /\ run'[r].pc = "done"

\* C23: when a feed's refresh-and-process task throws inside a full run, every
\* other feed is still refreshed and processed to the end of its episode list,
\* the throwing feed adds no result, and the run completes: its audit record
\* is finalised from the results of the other feeds alone.
C23_FeedFailureIsolated ==
  /\ [][\A r \in RunIds :
          (FullRun(r) /\ Finishes(r) /\ ThrewIn(r) # {}) =>
            /\ \A w \in WorkersOf(r) \ ThrewIn(r) :
                 /\ worker[w].pc = "finished"
                 /\ Len(worker[w].results) = Len(worker[w].selected)
            /\ \A w \in ThrewIn(r) : worker[w].results = <<>>
            /\ LET log == task_logs'[run[r].taskLogId]
               IN /\ log.completed_at
                  /\ log.total_episodes = Tally(ReturnedIn(r), "any")
                  /\ log.processed_episodes = Tally(ReturnedIn(r), "success")
                  /\ log.failed_episodes = Tally(ReturnedIn(r), "failed")
                  /\ log.status = RunStatus(Tally(ReturnedIn(r), "success"),
                                            Tally(ReturnedIn(r), "failed"))]_vars
  /\ \A r \in RunIds : (FullRun(r) /\ ThrewIn(r) # {}) ~> (run[r].pc = "done")

\* Every feed task of a full run has settled, one by throwing and another by
\* returning a successful episode: the run is about to end.
C23_Witness ==
  \E r \in RunIds :
    /\ FullRun(r) /\ run[r].pc = "running"
    /\ ThrewIn(r) # {}
    /\ WorkersOf(r) = ThrewIn(r) \cup ReturnedIn(r)
    /\ Tally(ReturnedIn(r), "success") > 0

(***************************************************************************)
(* The end of runFullPipeline on its own: the feed tasks have settled in    *)
(* every way they can, and the run aggregates what they returned.           *)
(***************************************************************************)
\* The results processEpisode can return for episode e.
Outcomes(e) ==
  IF audio_url(e)
    THEN {Result("success", e, ""), Result("skipped", e, ""),
          Result("failed", e, "transcription failed"), Result("failed", e, "")}
    ELSE {Result("skipped", e, ""), Result("failed", e, "No audio URL")}

\* One result per element of the list sel, in order.
ResultLists(sel) ==
  {rs \in UNION {[1..n -> UNION {Outcomes(e) : e \in Episodes}] : n \in {Len(sel)}} :
     \A i \in 1..Len(sel) : rs[i] \in Outcomes(sel[i])}

\* The ways the task of feed p settles: it throws, or it returns one result
\* per episode it selected (none, or every episode of the feed).
Settlements(p) ==
  {[IdleWorker EXCEPT !.pc = "threw", !.kind = "feed", !.useTimeWindow = TRUE,
                      !.error = "feed failed"]}
  \cup UNION {{[IdleWorker EXCEPT !.pc = "finished", !.kind = "feed",
                                  !.useTimeWindow = TRUE, !.selected = sel,
                                  !.results = rs] : rs \in ResultLists(sel)}
              : sel \in {<<>>, SortDesc(FeedItems(p))}}

\* The status a returned result leaves on its episode's row.
StatusLeft(g, e) ==
  LET rs == g[podcast_id(e)].results
      at == {i \in 1..Len(rs) : rs[i].episodeId = e}
  IN IF at = {} THEN "pending"
     ELSE LET r == rs[CHOOSE i \in at : TRUE]
          IN CASE r.status = "failed" /\ r.error = "No audio URL" -> "pending"
               [] r.status = "failed" -> "failed"
               [] OTHER -> "completed"

AuditInit ==
  /\ CallsIdle
  /\ provider = "dashscope"
  /\ episodes = Episodes
  /\ processed_at = [e \in Episodes |-> 0]
  /\ analysis = [e \in Episodes |-> 0]
  /\ loop = NoOne
  /\ tempFiles = {}
  /\ nTriggers = 1
  /\ saves = [e \in Episodes |-> 0]
  /\ stamps = [e \in Episodes |-> 0]
  /\ reprocessed = {}
  /\ task_logs = <<NewTaskLog("full_pipeline")>>
  /\ \E kind \in {"scheduled", "manual"} :
       /\ isRunning = (kind = "scheduled")
       /\ run = [r \in RunIds |->
                   IF r = 1 THEN [kind |-> kind, pc |-> "running", taskLogId |-> 1]
                   ELSE NoRun]
  /\ \E g \in [Podcasts -> UNION {Settlements(p) : p \in Podcasts}] :
       /\ \A p \in Podcasts : g[p] \in Settlements(p)
       /\ worker = [w \in Workers |-> IF w[1] = 1 THEN g[w[2]] ELSE IdleWorker]
       /\ status = [e \in Episodes |-> StatusLeft(g, e)]

AuditNext == \E r \in RunIds : RunFinish(r) /\ UNCHANGED callVars

AuditSpec == AuditInit /\ [][AuditNext]_vars

\* The failed results with an error message among the results rs.
FailedWithError(rs) ==
  {i \in 1..Len(rs) : rs[i].status = "failed" /\ rs[i].error # ""}

\* C24: when a full run ends, its audit record holds total_episodes = success +
\* failed + skipped results of the run, processed_episodes = the 'success'
\* results, failed_episodes = the 'failed' results, one error_details entry for
\* every failed episode with an error, and status 'failed' exactly when
\* failed > 0 and success = 0, 'completed' otherwise.
C24_AuditTotals ==
  [][\A r \in RunIds :
       (FullRun(r) /\ Finishes(r)) =>
         LET log == task_logs'[run[r].taskLogId]
             ws == ReturnedIn(r)
             ok == Tally(ws, "success")
             ko == Tally(ws, "failed")
         IN /\ log.total_episodes = ok + ko + Tally(ws, "skipped")
            /\ log.processed_episodes = ok
            /\ log.failed_episodes = ko
            /\ \A w \in ws : \A i \in FailedWithError(worker[w].results) :
                 IsIn(<<worker[w].results[i].episodeId, worker[w].results[i].error>>,
                      log.error_details)
            /\ Len(log.error_details) =
                 Cardinality({<<w, i>> \in ws \X (1..Cardinality(Episodes)) :
                                i \in FailedWithError(worker[w].results)})
            /\ (log.status = "failed") <=> (ko > 0 /\ ok = 0)
            /\ log.status \in {"failed", "completed"}
            /\ log.completed_at]_vars

\* A full run has ended with a success, a failure and a skip: its record says
\* 'completed' with three episodes, one of them failed with a message.
C24_Witness ==
  \E r \in RunIds :
    /\ FullRun(r) /\ run[r].pc = "done"
    /\ LET log == task_logs[run[r].taskLogId]
       IN /\ log.status = "completed"
          /\ log.total_episodes = 3
          /\ log.processed_episodes = 1
          /\ log.failed_episodes = 1
          /\ Len(log.error_details) = 1

\* The scheduled runs that are in flight.
ScheduledInFlight == {r \in RunIds : run[r].kind = "scheduled" /\ run[r].pc = "running"}

\* The step is a call of executeScheduledTask.
ScheduledTrigger == nTriggers' = nTriggers + 1 /\ run'[nTriggers + 1].kind = "scheduled"

\* C25: at most one full run started through executeScheduledTask is in
\* flight, and the busy flag is set exactly while one is; a trigger that
\* arrives while one is in flight returns at once and starts or queues
\* nothing; the flag is cleared when the run ends, by return or by exception,
\* and a trigger that finds the flag clear starts a run.
C25_SingleScheduledRun ==
  /\ [](Cardinality(ScheduledInFlight) <= 1 /\ (isRunning <=> ScheduledInFlight # {}))
  /\ [][(ScheduledTrigger /\ ScheduledInFlight # {}) =>
          /\ run'[nTriggers + 1].pc = "skipped"
          /\ UNCHANGED <<worker, task_logs, isRunning, loop>>
          /\ ScheduledInFlight' = ScheduledInFlight]_vars
  /\ [][\A r \in ScheduledInFlight :
          run'[r].pc # "running" => (run'[r].pc \in {"done", "threw"} /\ ~isRunning')]_vars
  /\ [][(ScheduledTrigger /\ ScheduledInFlight = {}) =>
          run'[nTriggers + 1].pc \in {"running", "threw"}]_vars

\* A scheduled run ended by exception, the flag is clear, and the trigger that
\* came after it has a run in flight.
C25_Witness ==
  /\ run[1].kind = "scheduled" /\ run[1].pc = "threw" /\ run[1].taskLogId = 1
  /\ run[2].kind = "scheduled" /\ run[2].pc = "running"
  /\ isRunning

\* The step is POST /episodes/e/reprocess starting a job on episode e.
Reprocesses(e) ==
  /\ nTriggers' = nTriggers + 1
  /\ run'[nTriggers + 1].kind = "reprocess"
  /\ run'[nTriggers + 1].pc = "running"
  /\ worker'[<<nTriggers + 1, podcast_id(e)>>].queue = <<e>>

\* The step in which the job of worker w returns a result of status st.
Returns(w, st) ==
  /\ worker[w].pc # "returned"
  /\ worker'[w].pc = "returned"
  /\ worker'[w].result.status = st

\* C26: a reprocess request on a completed episode deletes the prior analysis
\* row and resets the status to 'pending' before the new job's idempotency
\* check, which is the very next step, so the job is not skipped; when the job
\* succeeds a new analysis row exists, distinct from every row stored before,
\* and the status is 'completed'.
C26_ReprocessCompleted ==
  /\ [][\A e \in Episodes :
          (Reprocesses(e) /\ status[e] = "completed" /\ analysis[e] # 0) =>
            /\ analysis'[e] = 0
            /\ status'[e] = "pending"
            /\ loop' = <<nTriggers + 1, podcast_id(e)>>
            /\ worker'[loop'].pc = "entry"]_vars
  /\ [][\A w \in Workers :
          (worker[w].kind = "reprocess" /\ worker[w].pc = "entry") =>
            /\ loop = w
            /\ analysis[Ep(w)] = 0
            /\ worker'[w].pc = "returned" => worker'[w].result.status # "skipped"]_vars
  /\ [][\A w \in Workers :
          (worker[w].kind = "reprocess" /\ Returns(w, "success")) =>
            /\ analysis'[Ep(w)] # 0
            /\ analysis'[Ep(w)] > saves[Ep(w)]
            /\ status'[Ep(w)] = "completed"]_vars

\* The reprocess job of an episode that had been completed before has
\* returned 'success': the episode is completed with its second analysis row.
C26_Witness ==
  \E w \in Workers :
    /\ worker[w].kind = "reprocess"
    /\ worker[w].pc = "returned"
    /\ worker[w].result.status = "success"
    /\ analysis[Ep(w)] = 2
    /\ status[Ep(w)] = "completed"

\* The jobs started by a re-trigger: POST /episodes/:id/reprocess and the
\* sweep of POST /pipeline/retry-failed.
ReRun(w) == worker[w].kind \in {"retry", "reprocess"}

\* The step is POST /pipeline/retry-failed starting its sweep.
Sweeps ==
  /\ nTriggers' = nTriggers + 1
  /\ run'[nTriggers + 1].kind = "retry"
  /\ run'[nTriggers + 1].pc = "running"

\* C27 (as stated): re-triggering failed episodes first deletes their analysis
\* artifact and resets them to 'pending', so a re-run job never returns
\* 'skipped' and no episode is ever 'pending' with an analysis artifact present.
C27_ReRunNeverSkipped ==
  /\ [][\A w \in Workers : ReRun(w) => ~Returns(w, "skipped")]_vars
  /\ [](\A e \in Episodes : ~(status[e] = "pending" /\ analysis[e] # 0))

\* C27 (amended): a re-trigger deletes the analysis artifact of every failed
\* episode it is about and resets it to 'pending' in the step of the request;
\* a single-episode reprocess job and the first job of a sweep never return
\* 'skipped'; a later job of a sweep returns 'skipped' only when an artifact
\* is present again (the newest stored for the episode: the reset deleted the
\* old one, so another job stored it since); and no episode is ever 'pending'
\* with an analysis artifact present.
C27_ReRunResetsFirst ==
  /\ [][\A e \in Episodes :
          (status[e] = "failed" /\ (Reprocesses(e) \/ Sweeps)) =>
            (analysis'[e] = 0 /\ status'[e] = "pending")]_vars
  /\ [][\A w \in Workers :
          (ReRun(w) /\ Returns(w, "skipped")) =>
            /\ worker[w].kind = "retry"
            /\ worker[w].results # <<>>
            /\ analysis[Ep(w)] # 0
            /\ analysis[Ep(w)] = saves[Ep(w)]]_vars
  /\ [](\A e \in Episodes : ~(status[e] = "pending" /\ analysis[e] # 0))

\* A job of the sweep has succeeded on an episode that was 'failed' with an
\* artifact stored: the artifact it leaves is the episode's second.
C27_Witness ==
  \E w \in Workers :
    /\ worker[w].kind = "retry"
    /\ worker[w].pc = "returned"
    /\ worker[w].result.status = "success"
    /\ analysis[Ep(w)] = 2
    /\ status[Ep(w)] = "completed"

(***************************************************************************)
(* transcribeWithParaformer on its own: submit, poll, fetch, fall back      *)
(***************************************************************************)
POLL_INITIAL_INTERVAL_MS == 10000
POLL_LATER_INTERVAL_MS == 30000
POLL_INITIAL_COUNT == 5
POLL_MAX_TIMEOUT_MS == 1800000

\* Milliseconds a request of the cycle takes to settle: an answer after five
\* seconds, or the status request's timeout.
RequestTimes == {5000, 15000}

\* Error messages, as the sequence of their parts.
TaskFailed == "Paraformer task failed"

TaskFailedMessage(code, msg) == <<TaskFailed, code, msg>>

TimedOutMessage == <<"Paraformer task timed out">>

NoResultsMessage == <<"Paraformer task succeeded but no results returned">>

SubtaskMessage == <<"Paraformer subtask failed", "FAILED">>

NoUrlMessage == <<"Paraformer: no transcription_url in result">>

NetworkMessage == <<"timeout exceeded">>

SubmitMessage == <<"Paraformer submit failed: no task_id">>

UploadMessage == <<"Failed to get upload policy">>

\* String.prototype.includes, on the parts of a message.
includes(msg, part) == \E i \in 1..Len(msg) : msg[i] = part

\* The codes a FAILED task reports; the first two are the ones of a source
\* the service could not download.
SourceCodes == {"FILE_DOWNLOAD_FAILED", "FILE_403_FORBIDDEN"}

FailureCodes == SourceCodes \cup {"InternalError", ""}

\* The wait chosen before the poll, every poll on the slow schedule.
IntervalAlwaysLater(pollCount) == POLL_LATER_INTERVAL_MS

\* The wait chosen before the poll, by the polls counted so far.
Interval(pollCount) ==
  IF pollCount < POLL_INITIAL_COUNT THEN POLL_INITIAL_INTERVAL_MS ELSE POLL_LATER_INTERVAL_MS

\* The loop's catch block: only the error of a FAILED task leaves the loop.
Rethrows(msg) == includes(msg, TaskFailed)

\* A fallback taken on every FAILED task, whatever its code.
FallsBackOnAnyFailure(msg) == includes(msg, TaskFailed)

\* The catch block of transcribeWithParaformer: the errors answered by the
\* upload fallback.
FallsBack(msg) ==
  includes(msg, "FILE_DOWNLOAD_FAILED") \/ includes(msg, "FILE_403_FORBIDDEN")

\* A transcribeWithParaformer call about to submit its first task. now is the
\* time since the cycle's startTime; polls, swallowed and terminal record what
\* the cycle has done: status requests issued, whether a poll's error was
\* swallowed, and the terminal failure the task or its result showed.
transcribeWithParaformer ==
  [pc |-> "submitting", cycle |-> 1, pollCount |-> 0, now |-> 0, elapsed |-> 0,
   wait |-> 0, polls |-> 0, swallowed |-> FALSE, terminal |-> "none",
   error |-> <<>>]

\* submitAndPollParaformer is entered: a fresh cycle.
Cycle(n) == [transcribeWithParaformer EXCEPT !.cycle = n]

\* An error leaves submitAndPollParaformer: the fallback for a source that
\* could not be fetched, once, or the error is thrown to the caller.
LeaveCycle(p, msg) ==
  IF p.cycle = 1 /\ FallsBack(msg)
    THEN [p EXCEPT !.pc = "uploading", !.error = msg]
    ELSE [p EXCEPT !.pc = "threw", !.error = msg]

\* An error is thrown inside the loop's try block.
ThrowInLoop(p, msg) ==
  IF Rethrows(msg) THEN LeaveCycle(p, msg)
  ELSE [p EXCEPT !.pc = "top", !.swallowed = TRUE]

\* The submit request settles.
SubmitDone ==
  /\ poller.pc = "submitting"
  /\ \E out \in {"task_id", "no_task_id", "network_error"} :
       poller' = CASE out = "task_id" -> [poller EXCEPT !.pc = "top", !.now = 0]
                   [] out = "no_task_id" -> LeaveCycle(poller, SubmitMessage)
                   [] OTHER -> LeaveCycle(poller, NetworkMessage)

\* The top of the loop: the ceiling is tested, then the wait chosen and begun.
LoopTop ==
  /\ poller.pc = "top"
  /\ poller' =
       IF poller.now > POLL_MAX_TIMEOUT_MS
         THEN LeaveCycle([poller EXCEPT !.elapsed = poller.now], TimedOutMessage)
         ELSE [poller EXCEPT !.pc = "sleeping", !.elapsed = poller.now,
                             !.wait = Interval(poller.pollCount)]

\* The wait is over: the poll is counted and the status request issued.
PollIssue ==
  /\ poller.pc = "sleeping"
  /\ poller' = [poller EXCEPT !.pc = "polling", !.now = @ + poller.wait,
                              !.pollCount = @ + 1, !.polls = @ + 1]

\* extractTranscriptionResult up to its await, on a SUCCEEDED task.
Extract(p, result) ==
  CASE result = "no_results" -> ThrowInLoop([p EXCEPT !.terminal = result], NoResultsMessage)
    [] result = "subtask_failed" -> ThrowInLoop([p EXCEPT !.terminal = result], SubtaskMessage)
    [] result = "no_url" -> ThrowInLoop([p EXCEPT !.terminal = result], NoUrlMessage)
    [] OTHER -> [p EXCEPT !.pc = "fetching"]

\* The status request settles.
PollDone ==
  /\ poller.pc = "polling"
  /\ \E d \in RequestTimes :
       LET p == [poller EXCEPT !.now = @ + d]
       IN \/ poller' = ThrowInLoop(p, NetworkMessage)
          \/ \E st \in {"PENDING", "RUNNING"} : poller' = [p EXCEPT !.pc = "top"]
          \/ \E code \in FailureCodes :
               poller' = ThrowInLoop([p EXCEPT !.terminal = "FAILED"],
                                     TaskFailedMessage(code, "Unknown error"))
          \/ \E result \in {"no_results", "subtask_failed", "no_url", "ok"} :
               poller' = Extract(p, result)

\* The request for the transcript document settles.
FetchDone ==
  /\ poller.pc = "fetching"
  /\ \E d \in RequestTimes :
       LET p == [poller EXCEPT !.now = @ + d]
       IN \/ poller' = [p EXCEPT !.pc = "returned"]
          \/ poller' = ThrowInLoop([p EXCEPT !.terminal = "unfetchable"], NetworkMessage)

\* downloadAndUploadToDashScope settles: the task is submitted again with the
\* uploaded file, or the upload's error is thrown.
UploadDone ==
  /\ poller.pc = "uploading"
  /\ \/ poller' = Cycle(2)
     \/ poller' = [poller EXCEPT !.pc = "threw", !.error = UploadMessage]

PollInit ==
  /\ Started
  /\ provider = "dashscope"
  /\ retry = NoCall
  /\ chunker = NoCall
  /\ analyzer = NoCall
  /\ normalizer = NoCall
  /\ poller = transcribeWithParaformer
  /\ uploader = NoCall

PollNext ==
  \/ SubmitDone /\ UNCHANGED <<pipelineVars, retry, chunker, analyzer, normalizer, uploader>>
  \/ LoopTop /\ UNCHANGED <<pipelineVars, retry, chunker, analyzer, normalizer, uploader>>
  \/ PollIssue /\ UNCHANGED <<pipelineVars, retry, chunker, analyzer, normalizer, uploader>>
  \/ PollDone /\ UNCHANGED <<pipelineVars, retry, chunker, analyzer, normalizer, uploader>>
  \/ FetchDone /\ UNCHANGED <<pipelineVars, retry, chunker, analyzer, normalizer, uploader>>
  \/ UploadDone /\ UNCHANGED <<pipelineVars, retry, chunker, analyzer, normalizer, uploader>>

PollSpec == PollInit /\ [][PollNext]_vars

\* C28: the wait before each of the first 5 status polls of a cycle is 10
\* seconds and the wait before every later poll is 30 seconds, whether or not
\* earlier polls ended in a swallowed error.
C28_PollSchedule ==
  (poller.pc = "sleeping") =>
    poller.wait = IF poller.polls < 5 THEN 10000 ELSE 30000

\* The cycle waits 30 seconds before its sixth poll, after a poll whose error
\* was swallowed.
C28_Witness ==
  /\ poller.pc = "sleeping"
  /\ poller.polls = 5
  /\ poller.swallowed
  /\ poller.wait = 30000

\* C29: a cycle never runs past its hard ceiling: no status poll is issued
\* more than 30 minutes after the task was submitted, and a cycle whose task
\* never showed a terminal status ends, when it ends by an error of the loop,
\* with the timeout error.
C29_NoPollPastCeiling ==
  /\ (poller.pc = "polling") => poller.now <= POLL_MAX_TIMEOUT_MS
  /\ (poller.pc = "threw" /\ poller.terminal = "none" /\ poller.polls > 0) =>
       poller.error = TimedOutMessage

\* C30: every terminal failure of a cycle other than a source that could not
\* be fetched (the task FAILED, or SUCCEEDED with its result missing, its
\* subtask not succeeded, or its transcript document unfetchable) propagates
\* at once: the call has thrown, with no further status poll and no fallback.
C30_TerminalFailurePropagates ==
  (/\ poller.terminal # "none"
   /\ ~(poller.terminal = "FAILED" /\ FallsBack(poller.error))) =>
    poller.pc = "threw"

\* C31: transcribeWithParaformer runs at most two submit-and-poll cycles; the
\* second starts only after the upload that follows a first cycle ended by a
\* FAILED task of code FILE_DOWNLOAD_FAILED or FILE_403_FORBIDDEN, and an
\* error of the second cycle is thrown without a further fallback.
C31_AtMostOneFallback ==
  /\ [](poller.pc # "idle" => poller.cycle \in {1, 2})
  /\ [][(poller.pc # "idle" /\ poller'.cycle # poller.cycle) =>
          /\ poller.cycle = 1 /\ poller'.cycle = 2
          /\ poller.pc = "uploading"
          /\ poller.terminal = "FAILED"
          /\ \E code \in {"FILE_DOWNLOAD_FAILED", "FILE_403_FORBIDDEN"} :
               poller.error[1] = TaskFailed /\ poller.error[2] = code]_vars
  /\ [](poller.pc # "idle" /\ poller.cycle = 2 => poller.pc # "uploading")
  /\ [][(poller.pc # "idle" /\ poller.cycle = 2 /\ poller'.error # poller.error) =>
          poller'.pc = "threw"]_vars

\* The second cycle has ended with a task that could not fetch its source
\* either: the call has thrown.
C31_Witness ==
  /\ poller.pc = "threw"
  /\ poller.cycle = 2
  /\ poller.polls > 0
  /\ includes(poller.error, "FILE_DOWNLOAD_FAILED")

(***************************************************************************)
(* Audio preparation and segment-upload transcription (openai provider):   *)
(* compressAudio, splitAudio, prepareAudioForUpload and transcribeAudio.   *)
(* Sizes are in bytes, durations in milliseconds (ffprobe reports seconds  *)
(* with a fraction); a temp file is named by its kind and index.           *)
(***************************************************************************)
AudioMaxChunkSizeMB == 25

\* Sizes of the compressed file: below, at and above the bound, up to three
\* segments.
FileSizes == {20971520, 26214400, 26214401, 41943040, 52428800, 62914560}

\* Probed durations: 0 = ffprobe failed, else whole and fractional seconds of
\* recordings of an hour and more.
Durations == {0, 3600000, 3600500, 3601000, 10485760}

DownloadFile == <<"download", 0>>
CompressedFile == <<"compressed", 0>>
ChunkFile(i) == <<"chunk", i>>

maxBytes(maxSizeMB) == maxSizeMB * 1024 * 1024

numChunksFloor(fileSize, maxSizeMB) == fileSize \div maxBytes(maxSizeMB)

\* Math.ceil(fileSize / maxBytes)
numChunks(fileSize, maxSizeMB) ==
  (fileSize + maxBytes(maxSizeMB) - 1) \div maxBytes(maxSizeMB)

\* Math.floor(duration / numChunks), in whole seconds
chunkDuration(duration, n) == duration \div (1000 * n)

\* -ss of segment i, in seconds
chunkStart(i, n, duration) == i * chunkDuration(duration, n)

\* ffmpeg writes a non-empty file for a cut of positive length that starts
\* before the end of the input.
CutWritten(i, n, duration) ==
  /\ chunkDuration(duration, n) > 0
  /\ chunkStart(i, n, duration) * 1000 < duration

RECURSIVE CutsFrom(_, _, _)
CutsFrom(i, n, duration) ==
  IF i >= n THEN <<>>
  ELSE (IF CutWritten(i, n, duration) THEN <<ChunkFile(i)>> ELSE <<>>)
         \o CutsFrom(i + 1, n, duration)

\* splitAudio(inputPath, outputDir, maxSizeMB): the paths returned and the
\* files it left in the temp directory.
splitAudio(fileSize, duration, maxSizeMB) ==
  IF fileSize <= maxBytes(maxSizeMB) \/ duration <= 0
    THEN [chunks |-> <<CompressedFile>>, created |-> {}, numChunks |-> 0,
          chunkDuration |-> 0]
    ELSE LET n == numChunks(fileSize, maxSizeMB)
         IN [chunks |-> CutsFrom(0, n, duration),
             created |-> {ChunkFile(i) : i \in 0..(n - 1)},
             numChunks |-> n,
             chunkDuration |-> chunkDuration(duration, n)]

\* The call as transcribeAudio starts it on a downloaded file.
transcribeAudio(fileSize, duration, ffmpeg) ==
  [pc |-> "preparing", fileSize |-> fileSize, duration |-> duration,
   hasFFmpeg |-> ffmpeg, files |-> {DownloadFile}, chunks |-> <<>>,
   numChunks |-> 0, chunkDuration |-> 0, i |-> 0, results |-> 0]

\* prepareAudioForUpload: compress, split, and drop the compressed file when
\* it was cut into segments.  A failing ffmpeg run throws out of
\* transcribeAudio and may leave its output behind.
PrepareAudioForUpload ==
  /\ uploader.pc = "preparing"
  /\ IF ~uploader.hasFFmpeg
       THEN uploader' = [uploader EXCEPT !.pc = "transcribing",
                                         !.chunks = <<DownloadFile>>]
       ELSE \/ \E left \in SUBSET {CompressedFile} :
                 uploader' = [uploader EXCEPT !.pc = "threw", !.files = @ \cup left]
            \/ LET r == splitAudio(uploader.fileSize, uploader.duration,
                                   AudioMaxChunkSizeMB)
                   unlinked == IF Len(r.chunks) > 1 /\ r.chunks[1] # CompressedFile
                                 THEN {CompressedFile} ELSE {}
               IN uploader' = [uploader EXCEPT
                    !.pc = "transcribing",
                    !.chunks = r.chunks,
                    !.numChunks = r.numChunks,
                    !.chunkDuration = r.chunkDuration,
                    !.files = ((@ \cup {CompressedFile}) \cup r.created) \ unlinked]

\* One iteration of the segment loop: the upload of chunks[i] (withRetry
\* inside) returns and the segment file is unlinked, or it fails for good
\* and the error leaves transcribeAudio.
TranscribeChunk ==
  /\ uploader.pc = "transcribing"
  /\ uploader.i < Len(uploader.chunks)
  /\ \E ok \in BOOLEAN :
       LET chunk == uploader.chunks[uploader.i + 1]
       IN uploader' =
            IF ok
              THEN [uploader EXCEPT !.i = @ + 1, !.results = @ + 1,
                      !.files = IF chunk # DownloadFile THEN @ \ {chunk} ELSE @]
              ELSE [uploader EXCEPT !.pc = "threw"]

TranscribeAudioReturns ==
  /\ uploader.pc = "transcribing"
  /\ uploader.i >= Len(uploader.chunks)
  /\ uploader' = [uploader EXCEPT !.pc = "returned"]

\* processEpisode's finally block: only the downloaded file is unlinked.
ProcessEpisodeFinally ==
  /\ uploader.pc \in {"returned", "threw"}
  /\ uploader' = [uploader EXCEPT !.pc = "cleaned", !.files = @ \ {DownloadFile}]

UploadInit ==
  /\ Started
  /\ provider = "openai"
  /\ retry = NoCall
  /\ chunker = NoCall
  /\ analyzer = NoCall
  /\ normalizer = NoCall
  /\ poller = NoCall
  /\ \E fileSize \in FileSizes, duration \in Durations, ffmpeg \in BOOLEAN :
       uploader = transcribeAudio(fileSize, duration, ffmpeg)

UploadNext ==
  \/ PrepareAudioForUpload /\ UNCHANGED <<pipelineVars, retry, chunker, analyzer, normalizer, poller>>
  \/ TranscribeChunk /\ UNCHANGED <<pipelineVars, retry, chunker, analyzer, normalizer, poller>>
  \/ TranscribeAudioReturns /\ UNCHANGED <<pipelineVars, retry, chunker, analyzer, normalizer, poller>>
  \/ ProcessEpisodeFinally /\ UNCHANGED <<pipelineVars, retry, chunker, analyzer, normalizer, poller>>

UploadSpec == UploadInit /\ [][UploadNext]_vars

\* The split ran: the file exceeded the bound and its duration was probed.
WasSplit ==
  /\ uploader.pc \in {"transcribing", "returned"}
  /\ uploader.hasFFmpeg
  /\ uploader.fileSize > maxBytes(AudioMaxChunkSizeMB)
  /\ uploader.duration > 0

\* C32: when the compressed file exceeds the size bound and its duration can
\* be probed, audio preparation yields exactly ceil(fileSize / maxBytes)
\* segments, the least count whose estimated segment size fileSize / count is
\* within the bound, and every segment is within the bound (2 segments for
\* 40MB, a 25MB limit and one hour).
C32_SegmentCount ==
  WasSplit =>
    LET n == Len(uploader.chunks)
        bound == maxBytes(AudioMaxChunkSizeMB)
    IN /\ n * bound >= uploader.fileSize
       /\ (n - 1) * bound < uploader.fileSize
       \* no segment is longer than 1/n of the input, so that its share of
       \* the file is at most fileSize / n <= bound
       /\ \A j \in 1..n :
            /\ uploader.chunks[j] = ChunkFile(j - 1)
            /\ n * uploader.chunkDuration * 1000 <= uploader.duration
       /\ (uploader.fileSize = 41943040 /\ uploader.duration = 3600000) => n = 2

C32_Witness ==
  /\ WasSplit
  /\ uploader.fileSize = 41943040
  /\ uploader.duration = 3600000
  /\ Len(uploader.chunks) = 2
  /\ uploader.pc = "returned"

\* The segment-upload transcription has ended, by its return or by the
\* error of a segment whose attempts are used up.
UploadEnded ==
  \/ uploader.pc = "returned"
  \/ uploader.pc = "threw" /\ uploader.chunks # <<>>
  \/ uploader.pc = "cleaned" /\ uploader.chunks # <<>>

\* C39: when the segment-upload transcription ends, by success or by a
\* segment that failed after its retries, every intermediate file created by
\* audio preparation (the compressed file and every segment file) has been
\* deleted.
C39_IntermediateFilesDeleted ==
  UploadEnded => uploader.files \subseteq {DownloadFile}

\* C40: the segments cut by splitAudio jointly cover the whole probed
\* duration: n segments of floor(duration / n) seconds each, with
\* n * floor(duration / n) >= duration.
C40_SegmentsCoverDuration ==
  WasSplit =>
    /\ Len(uploader.chunks) = uploader.numChunks
    /\ uploader.numChunks * uploader.chunkDuration * 1000 >= uploader.duration

\* The pending episodes of feed p among eps, of any publication date.
PendingOf(eps, p) == {e \in eps : podcast_id(e) = p /\ status[e] = "pending"}

\* C33: a manually triggered run processes all pending episodes of each feed
\* regardless of publication date, whereas a scheduled run processes only
\* the pending episodes published within the trailing updateWindowHours
\* window.
C33_ManualRunTakesAllPending ==
  [][\A w \in Workers :
       (worker[w].pc = "parsing" /\ worker'[w].pc \in {"entry", "finished"}) =>
         LET chosen == {e \in Episodes : IsIn(e, worker'[w].selected)}
         IN /\ run[w[1]].kind = "manual" =>
                 chosen = PendingOf(episodes', w[2])
            /\ run[w[1]].kind = "scheduled" =>
                 chosen = {e \in PendingOf(episodes', w[2]) :
                             published_at(e) >= WindowStart}]_vars

\* Every run received so far has finished (or was refused at its start).
AllRunsEnded == \A r \in RunIds : run[r].pc \in {"none", "skipped", "done"}

\* C34: every audit record created at the start of an orchestration run
\* (scheduled or manual full pipeline, single feed, single-episode reprocess,
\* failed-episode retry sweep) is updated to a terminal status ('completed'
\* or 'failed') when that run finishes; no record stays 'running' after its
\* run has ended.
C34_NoRecordLeftRunning ==
  AllRunsEnded =>
    \A i \in 1..Len(task_logs) :
      /\ task_logs[i].status \in {"completed", "failed"}
      /\ task_logs[i].completed_at

\* No processEpisode call on episode e has started and not yet returned.
NoJobOn(e) ==
  \A w \in Workers :
    ~(worker[w].pc \in InFlightPcs \cup {"entry"} /\ Ep(w) = e)

\* C35: whenever no processEpisode job is in flight for an episode, its
\* persisted status is 'completed' if and only if an analysis artifact is
\* stored for it, for every interleaving of scheduled runs, manual runs,
\* reprocess requests and retry sweeps.
C35_CompletedIffArtifact ==
  \A e \in episodes :
    NoJobOn(e) => (status[e] = "completed" <=> getAnalysisResult(e) # 0)

\* Jobs that overlap on one episode: a single-feed run on feed 1 and the
\* reprocess requests for its episodes that arrive while it runs or after it,
\* every awaited operation settling.
OverlapNext ==
  \/ nTriggers = 0 /\ PostPodcastProcess(1) /\ UNCHANGED callVars
  \/ \E e \in FeedItems(1) : PostReprocess(e) /\ UNCHANGED callVars
  \/ \E w \in Workers : ParseFeedDone(w) /\ UNCHANGED callVars
  \/ \E w \in Workers : ProcessEpisodeEntry(w) /\ UNCHANGED callVars
  \/ \E w \in Workers : DownloadDone(w) /\ UNCHANGED callVars
  \/ \E w \in Workers : TranscribeDone(w) /\ UNCHANGED callVars
  \/ \E w \in Workers : AnalyzeDone(w) /\ UNCHANGED callVars
  \/ \E w \in Workers : Collect(w) /\ UNCHANGED callVars
  \/ \E r \in RunIds : RunFinish(r) /\ UNCHANGED callVars

\* The loops that run on feed 1.
OverlapWorkers == {w \in Workers : w[2] = 1}

OverlapFairness ==
  /\ \A w \in OverlapWorkers :
       WF_vars(/\ \/ ParseFeedDone(w) \/ ProcessEpisodeEntry(w) \/ DownloadDone(w)
                  \/ TranscribeDone(w) \/ AnalyzeDone(w) \/ Collect(w)
               /\ UNCHANGED callVars)
  /\ \A r \in RunIds : WF_vars(RunFinish(r) /\ UNCHANGED callVars)

OverlapInit == Init /\ provider = "openai"

OverlapSpec == OverlapInit /\ [][OverlapNext]_vars /\ OverlapFairness

\* C36: every processEpisode invocation that marks an episode 'processing'
\* eventually marks it 'completed' or 'failed' and returns, provided each
\* external call eventually returns or fails; hence once no job is in flight
\* no episode is left in 'processing'.
C36_JobsSettle ==
  /\ \A w \in OverlapWorkers :
       (worker[w].pc \in InFlightPcs /\ worker[w].wrote = <<"processing">>)
         ~> (/\ worker[w].pc = "returned"
             /\ Len(worker[w].wrote) = 2
             /\ Last(worker[w].wrote) \in {"completed", "failed"})
  /\ [](\A e \in episodes : NoJobOn(e) => status[e] # "processing")

\* A job returns 'failed' on an episode that a reprocess request had reset
\* while another job was in flight on it, and no job is left on the episode.
C36_Witness ==
  \E w \in Workers :
    /\ worker[w].pc = "returned"
    /\ worker[w].wrote = <<"processing", "failed">>
    /\ Ep(w) \in reprocessed
    /\ NoJobOn(Ep(w))
    /\ status[Ep(w)] = "failed"
    /\ getAnalysisResult(Ep(w)) # 0

\* C37: the reprocess handler's deletion of the analysis row, its status
\* reset and the idempotency check of the job it starts run with no
\* suspension point between them, so no job that runs concurrently can
\* store an analysis in between: the job started by a reprocess request never
\* returns 'skipped', even while another job for the same episode is in
\* flight.
C37_ReprocessNeverSkipped ==
  /\ [][\A e \in episodes :
          Reprocesses(e) =>
            /\ getAnalysisResult(e)' = 0
            /\ status'[e] = "pending"
            /\ loop' = <<nTriggers + 1, podcast_id(e)>>
            /\ worker'[loop'].kind = "reprocess"
            /\ worker'[loop'].pc = "entry"
            /\ \A v \in Workers \ {loop'} : worker'[v] = worker[v]]_vars
  /\ [][\A w \in Workers :
          (worker[w].kind = "reprocess" /\ worker[w].pc = "entry") =>
            /\ worker'[w].pc # "entry"
            /\ ~AlreadyProcessed(Ep(w))
            /\ \A v \in Workers \ {w} : worker'[v] = worker[v]]_vars
  /\ [][\A w \in Workers :
          worker[w].kind = "reprocess" => ~Returns(w, "skipped")]_vars

\* A reprocess job has passed its idempotency check and returned 'success'
\* while the job of another loop is still in flight on the same episode.
C37_Witness ==
  \E w \in Workers, v \in Workers :
    /\ w # v
    /\ worker[w].kind = "reprocess"
    /\ worker[w].pc = "returned"
    /\ worker[w].result.status = "success"
    /\ InFlight(v, Ep(w))

\* A splitIntoChunks call whose every step is taken.
SplitFairSpec == SplitInit /\ [][SplitNext]_vars /\ WF_vars(SplitNext)

\* Every chunk produced so far but the last of a returned call is longer
\* than 70% of the budget.
LongChunks ==
  \A i \in 1..Len(chunker.chunks) :
    (i < Len(chunker.chunks) \/ chunker.pc # "returned") =>
      10 * chunker.chunks[i].length > 7 * chunker.maxChars

NonEmptyChunks == \A i \in 1..Len(chunker.chunks) : chunker.chunks[i].length > 0

====
